---- MODULE Spec2Model ----
(***************************************************************************)
(* A model of the asynchronous-operation coordination of the PAB / BAF     *)
(* Python SDK: the bounded pollers of pab_sdk.client.AgentBuilderClient    *)
(* (wait_for_tool_ready, wait_for_resource_ready,                          *)
(* wait_for_message_response) and the polling and retry loops of           *)
(* pab_client.PABClient / AgentInterface.                                  *)
(*                                                                         *)
(* One behaviour is one call: Init chooses the operation and its           *)
(* arguments, every action is one iteration (or one exit) of the loop the  *)
(* operation runs, and the answers of the server are drawn inside the      *)
(* action that performs the request.                                       *)
(***************************************************************************)
EXTENDS Integers, Sequences, FiniteSets, TLC

VARIABLES
    op,             \* the method that was called
    pc,             \* where the call stands: a loop label, or "done"
    max_attempts,   \* argument max_attempts of the bounded pollers
    history_id,     \* argument history_id of the reply pollers
    script,         \* the state the server reports at the 1st, 2nd, ... readiness fetch
    attempt,        \* loop variable `attempt` of the bounded pollers
    all_messages,   \* the history listing of the latest poll round
    chat_state,     \* the chat's state on the server during the latest poll round
    log,            \* the requests sent and the sleeps taken, in order (of a readiness
                    \* loop of pab_client, which is unbounded, only the fetch that ends it)
    result,         \* what the call gave back: nothing yet, a value, or an exception
    retry_count,    \* local retry_count of PABClient.add_document
    last_response,  \* the latest response a PABClient / AgentInterface call received
    server_history, \* the identifiers of the nodes of the chat on the server, in order
    continuation_id, \* the historyId the server gave to the continueMessage request
    outer_retry_count, \* local retry_count of AgentInterface.add_document
    registry,       \* self._tools of PABClient: tool name -> tool identifier
    server,         \* the collection on the server the call works on (the chats or
                    \* the tools of the agent, or the agents): records [ID, name], in
                    \* the order the server lists them
    arg_name,       \* the name the entity is created with
    concurrent,     \* the two calls come from two client instances and interleave
    calls,          \* where each of the two create calls stands, what it found and got
    now,            \* time.time(), in minutes
    token,          \* the cached access token (self._token) with its grant
    expires_at,     \* self._expires_at of TokenManager, self._token_expiry of PABClient
    grants,         \* the grant requests sent to the token endpoint so far
    calls_made,     \* the calls of get_token / _get_token so far
    last_call,      \* the latest call of get_token / _get_token: what it found and did
    threads,        \* where each of two threads inside TokenManager.get_token stands
    last_error,     \* the lastError field of the latest readiness fetch response
    message,        \* the message of the exception a readiness loop raised
    agent_id,       \* self._agent_id of PABClient
    chat_id,        \* self._chat_id of PABClient
    registry_scope, \* the agent the client was bound to when it stored each entry of
                    \* self._tools
    interfaces,     \* the AgentInterface objects built from the client: the chat_id
                    \* each was given and the chat its initialize() selected
    cached_credentials_path, \* the class attribute PABClient._cached_credentials_path
    cache_file,     \* what ~/.pab_sdk_cache holds
    loaded,         \* what the latest PABClient(...) did: where it loaded credentials from
    explicit_path,  \* the path of the latest PABClient(path) that loaded its credentials
    restarted       \* a new process began after explicit_path was set

vars == <<op, pc, max_attempts, history_id, script, attempt, all_messages,
          chat_state, log, result, retry_count, last_response, server_history,
          continuation_id, outer_retry_count, registry, server, arg_name,
          concurrent, calls, now, token, expires_at, grants, calls_made, last_call,
          threads, last_error, message, agent_id, chat_id, registry_scope,
          interfaces, cached_credentials_path, cache_file, loaded, explicit_path, restarted>>

\* What no action of the bounded pollers of pab_sdk touches.
legacyVars == <<retry_count, last_response, server_history, continuation_id>>

\* What only the document operations of AgentInterface and the create calls
\* touch.
interfaceVars == <<outer_retry_count, registry, server>>

\* What only the create calls touch.
createVars == <<arg_name, concurrent, calls>>

\* What only the token calls touch.
tokenVars == <<now, token, expires_at, grants, calls_made, last_call>>

\* What only the two threads of a concurrent get_token touch.
raceVars == <<threads>>

\* What only the error branch of a readiness loop touches.
diagVars == <<last_error, message>>

\* What only the calls that bind the client to an agent or a chat touch.
sessionVars == <<agent_id, chat_id, registry_scope, interfaces>>

\* What only the constructor of PABClient touches.
cacheVars == <<cached_credentials_path, cache_file, loaded, explicit_path, restarted>>

extraVars == <<raceVars, diagVars, sessionVars, cacheVars>>

(***************************************************************************)
(* Bounds of the model.                                                    *)
(***************************************************************************)
MaxAttempts == 3        \* max_attempts ranges over 0..MaxAttempts
MaxListing == 3         \* a history listing holds at most MaxListing nodes

(***************************************************************************)
(* Values.                                                                 *)
(***************************************************************************)
None == "None"          \* Python's None, also the value of an absent field

Absent == "Absent"      \* the key is not in the response dictionary

\* dict.get(key, default)
Get(field, default) == IF field = Absent THEN default ELSE field

Running == [kind |-> "none", value |-> None]
Return(v) == [kind |-> "return", value |-> v]
Raise(e) == [kind |-> "raise", value |-> e]

\* _make_request turns every failed request into ApiError("API request failed: ...");
\* wait_for_message_response raises ApiError("Chat processing failed") itself.
RequestFailed == "ApiError: API request failed"
ChatFailed == "ApiError: Chat processing failed"
IsApiError(r) == r.kind = "raise" /\ r.value \in {RequestFailed, ChatFailed}

\* What one readiness fetch can give: a state literal, no (or an unknown) state,
\* or a failed request.
FetchAnswers == {"processing", "ready", "error", None, "ApiError"}

NoResponse == [request |-> None, status |-> None]

\* The variables of pab_client while a call of pab_sdk runs.
LegacyIdle ==
    /\ retry_count = 0
    /\ last_response = NoResponse
    /\ server_history = <<>>
    /\ continuation_id = None

\* The variables of the document operations of AgentInterface while another
\* call runs.
EmptyDict == [n \in {} |-> None]

\* `self._tools[name] = tool_id`
Put(dict, key, value) ==
    [n \in DOMAIN dict \cup {key} |-> IF n = key THEN value ELSE dict[n]]

\* The server files a new entity under a fresh identifier.
Created(name) == Append(server, [ID |-> Len(server) + 1, name |-> name])

InterfaceIdle ==
    /\ outer_retry_count = 0
    /\ registry = EmptyDict
    /\ server = <<>>

\* The variables of the create calls while another call runs.
NoCall == [pc |-> "done", name |-> None, found |-> 0, created |-> 0, result |-> Running]
CreateIdle ==
    /\ arg_name = None
    /\ concurrent = FALSE
    /\ calls = <<NoCall, NoCall>>

\* The variables of the token calls while another call runs.
NoToken == [serial |-> 0, issued_at |-> 0, expires_in |-> 0]
NotCalled == [kind |-> "none", error |-> None, at |-> 0, before |-> NoToken, granted |-> 0,
              returned |-> 0]
TokenIdle ==
    /\ now = 0
    /\ token = NoToken
    /\ expires_at = 0
    /\ grants = 0
    /\ calls_made = 0
    /\ last_call = NotCalled

\* The threads while no concurrent get_token runs.
NoThread == [pc |-> "done", granted |-> NoToken, error |-> None, returned |-> 0]
RaceIdle == threads = <<NoThread, NoThread>>

\* No readiness loop has raised.
DiagIdle ==
    /\ last_error = None
    /\ message = None

\* A client that is bound to no agent and no chat.
SessionIdle ==
    /\ agent_id = None
    /\ chat_id = None
    /\ registry_scope = EmptyDict
    /\ interfaces = <<>>

\* No PABClient is constructed.
NotLoaded == [from |-> None, path |-> None, error |-> None]
CacheIdle ==
    /\ cached_credentials_path = None
    /\ cache_file = None
    /\ loaded = NotLoaded
    /\ explicit_path = None
    /\ restarted = FALSE

ExtraIdle ==
    /\ RaceIdle
    /\ DiagIdle
    /\ SessionIdle
    /\ CacheIdle

(***************************************************************************)
(* The diagnostic of an entity in state "error": the lastError field of    *)
(* the fetched body, and the message of the exception the loop raises.     *)
(***************************************************************************)
\* The lastError of a body with state "error": a text, or no such field.
LastErrors == {"quota exceeded", "unsupported file", Absent}

\* The text before the diagnostic in the message each loop raises.
ErrorPrefix(o) ==
    CASE o = "wait_for_tool_ready" -> "Tool failed to become ready: "
      [] o = "wait_for_resource_ready" -> "Resource failed to become ready: "
      [] o = "_wait_for_tool_ready" -> "Tool failed to load: "
      [] o = "_wait_for_resource_ready" -> "Resource failed to load: "
      [] o = "_wait_for_agent_ready" -> "Agent failed to initialize: "

\* Mutant of ErrorMessage: the message without the text of the server.
ErrorMessageFixed(o, field) == ErrorPrefix(o) \o "error"

\* f"...: {tool.last_error}" with last_error=data.get("lastError") of
\* from_api_dict, and f"...: {data.get('lastError')}": the text, or "None".
ErrorMessage(o, field) == ErrorPrefix(o) \o Get(field, None)

\* The error branch of a readiness loop: the diagnostic of the fetched body
\* goes into the message of the exception.
RaiseWithDiagnostic ==
    \E field \in LastErrors :
        /\ last_error' = field
        /\ message' = ErrorMessage(op, field)

(***************************************************************************)
(* pab_sdk.client: wait_for_tool_ready and wait_for_resource_ready.        *)
(***************************************************************************)
ReadyOps == {"wait_for_tool_ready", "wait_for_resource_ready"}

\* Mutants of InBudget: one round too many, one round too few.
InBudgetInclusive(a, m) == a <= m
InBudgetShort(a, m) == a + 1 < m

\* range(max_attempts): the loop body runs while attempt < max_attempts.
InBudget(a, m) == a < m

\* Mutant of ReadyBranch: an entity without a state counts as ready.
ReadyBranchAbsentIsReady(state) ==
    IF state \in {"ready", None} THEN "return"
    ELSE IF state = "error" THEN "raise"
    ELSE "sleep"

\* The branch the loop body takes on the state of the fetched entity.
ReadyBranch(state) ==
    IF state = "ready" THEN "return"
    ELSE IF state = "error" THEN "raise"
    ELSE "sleep"

\* One iteration of `for attempt in range(max_attempts)`: fetch, inspect, sleep.
WaitForReadyIteration ==
    /\ op \in ReadyOps
    /\ pc = "poll"
    /\ InBudget(attempt, max_attempts)
    /\ LET answer == script[attempt + 1]
           fetched == Append(log, <<"GET", answer>>)
       IN  IF answer = "ApiError"
           THEN /\ log' = fetched
                /\ result' = Raise(RequestFailed)
                /\ pc' = "done"
                /\ UNCHANGED attempt
           ELSE IF ReadyBranch(answer) = "return"
           THEN /\ log' = fetched
                /\ result' = Return(answer)
                /\ pc' = "done"
                /\ UNCHANGED attempt
           ELSE IF ReadyBranch(answer) = "raise"
           THEN /\ log' = fetched
                /\ result' = Raise("ResourceNotReadyError")
                /\ pc' = "done"
                /\ UNCHANGED attempt
           ELSE /\ log' = Append(fetched, <<"sleep", "interval">>)
                /\ attempt' = attempt + 1
                /\ UNCHANGED <<pc, result>>
    /\ IF InBudget(attempt, max_attempts) /\ ReadyBranch(script[attempt + 1]) = "raise"
       THEN RaiseWithDiagnostic
       ELSE UNCHANGED diagVars
    /\ UNCHANGED <<op, max_attempts, history_id, script, all_messages, chat_state>>
    /\ UNCHANGED legacyVars
    /\ UNCHANGED <<interfaceVars, createVars, tokenVars, raceVars, sessionVars,
                   cacheVars>>

\* The statement after the loop: raise TimeoutError.
WaitForReadyExhausted ==
    /\ op \in ReadyOps
    /\ pc = "poll"
    /\ ~InBudget(attempt, max_attempts)
    /\ result' = Raise("TimeoutError")
    /\ pc' = "done"
    /\ UNCHANGED <<op, max_attempts, history_id, script, attempt, all_messages,
                   chat_state, log>>
    /\ UNCHANGED legacyVars
    /\ UNCHANGED <<interfaceVars, createVars, tokenVars, extraVars>>

InitReady ==
    /\ op \in ReadyOps
    /\ pc = "poll"
    /\ max_attempts \in 0..MaxAttempts
    /\ script \in [1..(MaxAttempts + 1) -> FetchAnswers]
    /\ history_id = None
    /\ attempt = 0
    /\ all_messages = <<>>
    /\ chat_state = None
    /\ log = <<>>
    /\ result = Running
    /\ InterfaceIdle
    /\ CreateIdle
    /\ TokenIdle
    /\ ExtraIdle
    /\ LegacyIdle

(***************************************************************************)
(* baf_sdk.models: history nodes as the API sends them.                    *)
(***************************************************************************)

\* data["previous"]: not there, there but no dictionary (null), or a dictionary
\* whose "ID" entry is ID (None when the dictionary has no "ID").
NoPrevious == [present |-> FALSE, isDict |-> FALSE, ID |-> None]
NullPrevious == [present |-> TRUE, isDict |-> FALSE, ID |-> None]
PreviousRef(id) == [present |-> TRUE, isDict |-> TRUE, ID |-> id]

\* Message.from_api_dict: previous_id of a node.
PreviousId(data) ==
    IF data.previous.present /\ data.previous.isDict THEN data.previous.ID
    ELSE IF data.previous_ID # Absent THEN data.previous_ID
    ELSE None

\* The nodes a history listing is made of: the request node of a chain, replies
\* to h1 and to h2 in both wire forms, and a node with an empty previous object.
HistoryNodes ==
    { [ID |-> "ping", previous |-> NoPrevious, previous_ID |-> Absent],
      [ID |-> "pong1", previous |-> PreviousRef("h1"), previous_ID |-> Absent],
      [ID |-> "pong2", previous |-> NullPrevious, previous_ID |-> "h2"],
      [ID |-> "pong2b", previous |-> PreviousRef("h2"), previous_ID |-> "h1"],
      [ID |-> "stray", previous |-> PreviousRef(None), previous_ID |-> "h1"] }

NodeOf(id) == CHOOSE n \in HistoryNodes : n.ID = id

\* The "value" array of GET .../history: any nodes, in any order.
Listings ==
    { l \in UNION { [1..n -> HistoryNodes] : n \in 0..MaxListing } :
        \A i, j \in 1..Len(l) : i # j => l[i] # l[j] }

\* Chat.from_api_dict: the state of the chat (None when absent or unknown).
ChatStates == {"processing", "failed", None}

(***************************************************************************)
(* pab_sdk.client: wait_for_message_response.                              *)
(***************************************************************************)
\* Mutants of FindResponse: the first node of the listing whatever it points
\* back to, and the last matching node instead of the first.
FindResponseAnyNode(messages, hid) == IF Len(messages) > 0 THEN 1 ELSE 0
FindResponseLast(messages, hid) ==
    IF \E i \in 1..Len(messages) : PreviousId(messages[i]) = hid
    THEN CHOOSE i \in 1..Len(messages) :
            /\ PreviousId(messages[i]) = hid
            /\ \A j \in (i + 1)..Len(messages) : PreviousId(messages[j]) # hid
    ELSE 0

\* The scan `for message in all_messages: if message.previous_id == history_id`:
\* the position of the message it returns, 0 when it returns none.
FindResponse(messages, hid) ==
    IF \E i \in 1..Len(messages) : PreviousId(messages[i]) = hid
    THEN CHOOSE i \in 1..Len(messages) :
            /\ PreviousId(messages[i]) = hid
            /\ \A j \in 1..(i - 1) : PreviousId(messages[j]) # hid
    ELSE 0

\* Mutant of IsFailed: the literal of the readiness states.
IsFailedError(state) == state = "error"

\* `if chat.state == ChatState.FAILED`
IsFailed(state) == state = "failed"

\* One iteration of the loop: list the history, scan it, then look at the chat.
\* api says which request of the round fails, if any.
WaitForMessageIteration ==
    /\ op = "wait_for_message_response"
    /\ pc = "poll"
    /\ InBudget(attempt, max_attempts)
    /\ \E listing \in Listings, cs \in ChatStates, api \in {"ok", "list fails", "chat fails"} :
         LET found == FindResponse(listing, history_id)
             listed == Append(log, <<"list_messages", IF found # 0 THEN "reply" ELSE "no reply">>)
         IN  /\ chat_state' = cs
             /\ IF api = "list fails"
                THEN /\ log' = Append(log, <<"list_messages", "ApiError">>)
                     /\ result' = Raise(RequestFailed)
                     /\ pc' = "done"
                     /\ UNCHANGED <<attempt, all_messages>>
                ELSE IF found # 0
                THEN /\ all_messages' = listing
                     /\ log' = listed
                     /\ result' = Return(listing[found].ID)
                     /\ pc' = "done"
                     /\ UNCHANGED attempt
                ELSE IF api = "chat fails"
                THEN /\ all_messages' = listing
                     /\ log' = Append(listed, <<"get_chat", "ApiError">>)
                     /\ result' = Raise(RequestFailed)
                     /\ pc' = "done"
                     /\ UNCHANGED attempt
                ELSE IF IsFailed(cs)
                THEN /\ all_messages' = listing
                     /\ log' = Append(listed, <<"get_chat", cs>>)
                     /\ result' = Raise(ChatFailed)
                     /\ pc' = "done"
                     /\ UNCHANGED attempt
                ELSE /\ all_messages' = listing
                     /\ log' = Append(Append(listed, <<"get_chat", cs>>), <<"sleep", "interval">>)
                     /\ attempt' = attempt + 1
                     /\ UNCHANGED <<pc, result>>
    /\ UNCHANGED <<op, max_attempts, history_id, script>>
    /\ UNCHANGED legacyVars
    /\ UNCHANGED <<interfaceVars, createVars, tokenVars, extraVars>>

\* The statement after the loop: raise TimeoutError.
WaitForMessageExhausted ==
    /\ op = "wait_for_message_response"
    /\ pc = "poll"
    /\ ~InBudget(attempt, max_attempts)
    /\ result' = Raise("TimeoutError")
    /\ pc' = "done"
    /\ UNCHANGED <<op, max_attempts, history_id, script, attempt, all_messages,
                   chat_state, log>>
    /\ UNCHANGED legacyVars
    /\ UNCHANGED <<interfaceVars, createVars, tokenVars, extraVars>>

\* history_id is what send_message or continue_message returned: an identifier,
\* or None when the response carried no historyId.
InitMessage ==
    /\ op = "wait_for_message_response"
    /\ pc = "poll"
    /\ max_attempts \in 0..MaxAttempts
    /\ history_id \in {"h1", "h2", None}
    /\ script = <<>>
    /\ attempt = 0
    /\ all_messages = <<>>
    /\ chat_state = None
    /\ log = <<>>
    /\ result = Running
    /\ InterfaceIdle
    /\ CreateIdle
    /\ TokenIdle
    /\ ExtraIdle
    /\ LegacyIdle

(***************************************************************************)
(* pab_sdk.client: send_message. The call sends one POST of sendMessage    *)
(* and takes its value from the body of the response.                      *)
(***************************************************************************)
\* The bodies the server answers sendMessage with: with or without
\* "historyId", with or without "answer".
SendResponses == [historyId : {"h1", Absent}, answer : {"text", "", Absent}]

\* Mutant of SendMessageValue: the two modes exchanged.
SendMessageValueSwapped(async_mode, response) ==
    IF async_mode THEN Get(response.answer, "") ELSE Get(response.historyId, None)

\* `if async_mode: return response.get("historyId")`, else
\* `return response.get("answer", "")`
SendMessageValue(async_mode, response) ==
    IF async_mode THEN Get(response.historyId, None) ELSE Get(response.answer, "")

SendMessage ==
    /\ op = "send_message"
    /\ pc = "call"
    /\ \E async_mode \in BOOLEAN :
         \/ \E response \in SendResponses :
              /\ log' = Append(log, <<"POST sendMessage", async_mode, response>>)
              /\ result' = Return(SendMessageValue(async_mode, response))
         \/ /\ log' = Append(log, <<"POST sendMessage", async_mode, "ApiError">>)
            /\ result' = Raise(RequestFailed)
    /\ pc' = "done"
    /\ UNCHANGED <<op, max_attempts, history_id, script, attempt, all_messages,
                   chat_state>>
    /\ UNCHANGED legacyVars
    /\ UNCHANGED <<interfaceVars, createVars, tokenVars, extraVars>>

InitSendMessage ==
    /\ op = "send_message"
    /\ pc = "call"
    /\ max_attempts = 0
    /\ history_id = None
    /\ script = <<>>
    /\ attempt = 0
    /\ all_messages = <<>>
    /\ chat_state = None
    /\ log = <<>>
    /\ result = Running
    /\ InterfaceIdle
    /\ CreateIdle
    /\ TokenIdle
    /\ ExtraIdle
    /\ LegacyIdle

(***************************************************************************)
(* pab_client.PABClient: the readiness loops _wait_for_resource_ready,     *)
(* _wait_for_tool_ready and _wait_for_agent_ready.                         *)
(***************************************************************************)
Response(req, status) == [request |-> req, status |-> status]

\* What one GET of an entity can give: a state literal, a body without "state",
\* a response raise_for_status() rejects, or a request that does not complete.
HttpErrors == {"503", "404", "500"}
LegacyFetchAnswers == {"processing", "ready", "error", None} \cup HttpErrors \cup {"ConnectError"}

StatusError(status) == "HTTPStatusError " \o status

\* `ready = data.get("state") == "ready"` of the resource and tool loops, and
\* `... or "state" not in agent_data` of the agent loop.
EntityReady(state) == state = "ready"
AgentReadyOnlyWhenReported(state) == state = "ready"
AgentReady(state) == state = "ready" \/ state = None

\* What one pass through the body of `while not ready:` comes to, for the
\* answer of its GET: an exception, "ready" (the loop ends) or "sleep".
WaitLoopBody(answer, isReady) ==
    IF answer \in HttpErrors THEN Raise(StatusError(answer))
    ELSE IF answer = "ConnectError" THEN Raise("ConnectError")
    ELSE IF answer = "error" THEN Raise("RuntimeError: failed to load")
    ELSE IF isReady THEN Return(None)
    ELSE Running

LegacyWaitStep(isAgent) ==
    /\ pc = "poll"
    /\ \E answer \in LegacyFetchAnswers :
         LET out == WaitLoopBody(answer, IF isAgent THEN AgentReady(answer) ELSE EntityReady(answer))
         IN  /\ last_response' = Response("GET", answer)
             /\ IF out = Running
                THEN pc' = "sleep" /\ UNCHANGED <<result, log>>
                ELSE /\ pc' = "done"
                     /\ result' = out
                     /\ log' = Append(log, <<"GET", answer>>)
             /\ IF answer = "error" THEN RaiseWithDiagnostic ELSE UNCHANGED diagVars
    /\ UNCHANGED <<op, max_attempts, history_id, script, attempt, all_messages,
                   chat_state, retry_count, server_history, continuation_id>>
    /\ UNCHANGED <<interfaceVars, createVars, tokenVars, raceVars, sessionVars,
                   cacheVars>>

\* _wait_for_resource_ready / _wait_for_tool_ready: one fetch of the loop.
WaitForEntityFetch ==
    /\ op \in {"_wait_for_resource_ready", "_wait_for_tool_ready"}
    /\ LegacyWaitStep(FALSE)

\* _wait_for_agent_ready: one fetch of the loop.
WaitForAgentFetch ==
    /\ op = "_wait_for_agent_ready"
    /\ LegacyWaitStep(TRUE)

\* `await asyncio.sleep(...)` at the end of the body of a loop of pab_client:
\* the loop goes round.
LoopSleep ==
    /\ pc = "sleep"
    /\ pc' = "poll"
    /\ UNCHANGED <<op, max_attempts, history_id, script, attempt, all_messages,
                   chat_state, log, result, retry_count, last_response,
                   server_history, continuation_id>>
    /\ UNCHANGED <<interfaceVars, createVars, tokenVars, extraVars>>

InitLegacyWait ==
    /\ op \in {"_wait_for_resource_ready", "_wait_for_tool_ready", "_wait_for_agent_ready"}
    /\ pc = "poll"
    /\ max_attempts = 0
    /\ history_id = None
    /\ script = <<>>
    /\ attempt = 0
    /\ all_messages = <<>>
    /\ chat_state = None
    /\ log = <<>>
    /\ result = Running
    /\ InterfaceIdle
    /\ CreateIdle
    /\ TokenIdle
    /\ ExtraIdle
    /\ LegacyIdle

(***************************************************************************)
(* pab_client.PABClient.get_agent, called without a chat id: bind the      *)
(* client to the agent, verify it with one GET, wait if it reports a       *)
(* state other than ready, then create the chat of the interface.          *)
(***************************************************************************)
Agents == {"a1", "a2"}

\* `agent_data.get("state") != "ready" and "state" in agent_data`
GetAgentWaits(state) == state # "ready" /\ state # None

\* `except httpx.HTTPStatusError`: 404 becomes ValueError, the rest is re-raised.
GetAgentError(out) ==
    IF out = Raise(StatusError("404")) THEN Raise("ValueError: Agent not found") ELSE out

GetAgentFrame ==
    UNCHANGED <<op, max_attempts, history_id, script, attempt, all_messages,
                chat_state, retry_count, server_history, continuation_id,
                interfaceVars, createVars, tokenVars, raceVars, diagVars,
                registry_scope, interfaces, cacheVars>>

\* Lines 736-758: the test of the argument, the binding, and the GET.
GetAgentVerify ==
    /\ op = "get_agent"
    /\ pc = "verify"
    /\ \E target \in Agents \cup {""} :
         IF target = ""
         THEN /\ result' = Raise("ValueError: Agent ID cannot be empty")
              /\ pc' = "done"
              /\ UNCHANGED <<agent_id, log>>
         ELSE /\ agent_id' = target
              /\ \E answer \in LegacyFetchAnswers :
                   /\ log' = Append(log, <<"GET agent", answer>>)
                   /\ IF answer \in HttpErrors \cup {"ConnectError", "error"}
                      THEN /\ result' =
                                IF answer = "error"
                                THEN Raise("RuntimeError: Agent is in error state")
                                ELSE GetAgentError(WaitLoopBody(answer, FALSE))
                           /\ pc' = "done"
                      ELSE /\ pc' = IF GetAgentWaits(answer) THEN "poll" ELSE "initialize"
                           /\ UNCHANGED result
    /\ UNCHANGED <<chat_id, last_response>>
    /\ GetAgentFrame

\* _wait_for_agent_ready inside the try block of get_agent: one fetch.
GetAgentWaitFetch ==
    /\ op = "get_agent"
    /\ pc = "poll"
    /\ \E answer \in LegacyFetchAnswers :
         LET out == WaitLoopBody(answer, AgentReady(answer))
         IN  /\ last_response' = Response("GET", answer)
             /\ IF out = Running
                THEN pc' = "sleep" /\ UNCHANGED <<result, log>>
                ELSE /\ log' = Append(log, <<"GET", answer>>)
                     /\ IF out.kind = "return"
                        THEN pc' = "initialize" /\ UNCHANGED result
                        ELSE pc' = "done" /\ result' = GetAgentError(out)
    /\ UNCHANGED <<agent_id, chat_id>>
    /\ GetAgentFrame

\* AgentInterface.initialize without a chat id: _create_chat posts the chat, and
\* posts it once more when the first POST fails.
GetAgentInitialize ==
    /\ op = "get_agent"
    /\ pc = "initialize"
    /\ \E first \in {"ok"} \cup HttpErrors, second \in {"ok"} \cup HttpErrors :
         /\ log' = IF first = "ok" THEN Append(log, <<"POST chat", first>>)
                   ELSE log \o <<<<"POST chat", first>>, <<"POST chat", second>>>>
         /\ IF first = "ok" \/ second = "ok"
            THEN chat_id' = "c2" /\ result' = Return("AgentInterface")
            ELSE result' = Raise(StatusError(second)) /\ UNCHANGED chat_id
    /\ pc' = "done"
    /\ UNCHANGED <<agent_id, last_response>>
    /\ GetAgentFrame

\* A client that is bound to no agent yet, or to agent a1 and its chat.
InitGetAgent ==
    /\ op = "get_agent"
    /\ pc = "verify"
    /\ \/ agent_id = None /\ chat_id = None
       \/ agent_id = "a1" /\ chat_id = "c1"
    /\ registry_scope = EmptyDict
    /\ interfaces = <<>>
    /\ max_attempts = 0
    /\ history_id = None
    /\ script = <<>>
    /\ attempt = 0
    /\ all_messages = <<>>
    /\ chat_state = None
    /\ log = <<>>
    /\ result = Running
    /\ LegacyIdle
    /\ InterfaceIdle
    /\ CreateIdle
    /\ TokenIdle
    /\ RaceIdle
    /\ DiagIdle
    /\ CacheIdle

(***************************************************************************)
(* pab_client.PABClient.add_document: the upload with retries. The call    *)
(* is made with the "document" tool in the registry and a valid token,     *)
(* by the user or by AgentInterface.add_document.                          *)
(***************************************************************************)
AddDocumentOps == {"add_document", "AgentInterface.add_document"}

\* Where PABClient.add_document hands over when it returns or raises: to the
\* user, or to the try block of AgentInterface.add_document.
ExitPc == IF op = "AgentInterface.add_document" THEN "returned" ELSE "done"

max_retries == 3

\* 2 ** n
RECURSIVE Pow2(_)
Pow2(n) == IF n = 0 THEN 1 ELSE 2 * Pow2(n - 1)

\* `wait_time = 2 ** retry_count`
WaitTime(count) == Pow2(count)

\* Mutants of ShouldRetry: every status is retried, and one retry too many.
ShouldRetryAnyStatus(status, count) == count < max_retries
ShouldRetryInclusive(status, count) == status = "503" /\ count <= max_retries

\* `if e.response.status_code == 503 and retry_count < max_retries`, evaluated
\* after `retry_count += 1`: the handler sleeps and the loop goes round.
ShouldRetry(status, count) == status = "503" /\ count < max_retries

\* `while retry_count < max_retries`
MayAttempt(count) == count < max_retries

\* What the upload POST can give: success with an "ID", a response
\* raise_for_status() rejects, a request that does not complete, or a success
\* body without "ID".
PostAnswers == {"ok", "no ID", "ConnectError"} \cup HttpErrors

\* `except httpx.HTTPStatusError as e:` of add_document, entered with the status
\* of the response that made raise_for_status() raise and the log so far.
StatusErrorHandler(status, logged) ==
    /\ retry_count' = retry_count + 1
    /\ IF ShouldRetry(status, retry_count + 1)
       THEN /\ log' = Append(logged, <<"sleep", WaitTime(retry_count + 1)>>)
            /\ pc' = "upload"
            /\ UNCHANGED result
       ELSE /\ log' = logged
            /\ result' = Raise(StatusError(status))
            /\ pc' = ExitPc

\* The head of the retry loop and the upload POST of its body; past the loop,
\* the trailing raise.
AddDocumentUpload ==
    /\ op \in AddDocumentOps
    /\ pc = "upload"
    /\ IF ~MayAttempt(retry_count)
       THEN /\ result' = Raise("RuntimeError: Failed to add document after maximum retries")
            /\ pc' = ExitPc
            /\ UNCHANGED <<log, retry_count, last_response>>
       ELSE \E answer \in PostAnswers :
              LET posted == Append(log, <<"POST", answer>>)
              IN  /\ last_response' = Response("POST", answer)
                  /\ IF answer = "ok"
                     THEN /\ log' = posted
                          /\ pc' = "poll"
                          /\ UNCHANGED <<result, retry_count>>
                     ELSE IF answer \in HttpErrors
                     THEN StatusErrorHandler(answer, posted)
                     ELSE /\ log' = posted
                          /\ result' = Raise(IF answer = "no ID" THEN "KeyError" ELSE answer)
                          /\ pc' = ExitPc
                          /\ UNCHANGED retry_count
    /\ UNCHANGED <<op, max_attempts, history_id, script, attempt, all_messages,
                   chat_state, server_history, continuation_id>>
    /\ UNCHANGED <<interfaceVars, createVars, tokenVars, extraVars>>

\* One fetch of _wait_for_resource_ready inside the try block of add_document:
\* what the fetch raises passes through the except clauses of add_document.
AddDocumentWaitFetch ==
    /\ op \in AddDocumentOps
    /\ pc = "poll"
    /\ \E answer \in LegacyFetchAnswers :
         LET out == WaitLoopBody(answer, EntityReady(answer))
             fetched == Append(log, <<"GET", answer>>)
         IN  /\ last_response' = Response("GET", answer)
             /\ IF out = Running
                THEN /\ pc' = "sleep"
                     /\ UNCHANGED <<log, result, retry_count>>
                ELSE IF out.kind = "return"
                THEN /\ result' = Return("resource_id")
                     /\ pc' = ExitPc
                     /\ log' = fetched
                     /\ UNCHANGED retry_count
                ELSE IF answer \in HttpErrors
                THEN StatusErrorHandler(answer, fetched)
                ELSE /\ result' = out
                     /\ pc' = ExitPc
                     /\ log' = fetched
                     /\ UNCHANGED retry_count
    /\ UNCHANGED <<op, max_attempts, history_id, script, attempt, all_messages,
                   chat_state, server_history, continuation_id>>
    /\ UNCHANGED <<interfaceVars, createVars, tokenVars, extraVars>>

\* The "document" tool of the agent, and the registry that knows it.
DocumentTool == [ID |-> 1, name |-> "document"]
DocumentRegistered == [n \in {"document"} |-> 1]

\* The registry of the client and the tools of the agent on the server before a
\* document operation: the tool is known to both, to neither, or (made by
\* another client instance) to the server only.
DocumentStates ==
    { <<DocumentRegistered, <<DocumentTool>> >>, <<EmptyDict, <<>> >>,
      <<EmptyDict, <<DocumentTool>> >> }

InitAddDocument ==
    /\ op \in AddDocumentOps
    /\ \E state \in DocumentStates : registry = state[1] /\ server = state[2]
    /\ op = "add_document" => "document" \in DOMAIN registry
    /\ pc = IF "document" \in DOMAIN registry THEN "upload" ELSE "tool"
    /\ outer_retry_count = 0
    /\ max_attempts = 0
    /\ history_id = None
    /\ script = <<>>
    /\ attempt = 0
    /\ all_messages = <<>>
    /\ chat_state = None
    /\ log = <<>>
    /\ result = Running
    /\ CreateIdle
    /\ TokenIdle
    /\ ExtraIdle
    /\ LegacyIdle

(***************************************************************************)
(* pab_client.AgentInterface.add_document: with no "document" in the       *)
(* registry PABClient.add_tool inside a retry loop, then                   *)
(* PABClient.add_document inside a retry loop of its own.                  *)
(***************************************************************************)
interface_max_retries == 3

\* `if e.response.status_code == 503 and retry_count < max_retries` of
\* AgentInterface.add_document, evaluated after its `retry_count += 1`.
InterfaceShouldRetry(status, count) == status = "503" /\ count < interface_max_retries

\* The result of PABClient.add_document is a httpx.HTTPStatusError.
IsStatusError(r) == r.kind = "raise" /\ r.value \in { StatusError(s) : s \in HttpErrors }

\* `except httpx.HTTPStatusError as e:` of the tool creation loop, entered with
\* the status of the response and the log so far.
ToolStatusErrorHandler(status, logged) ==
    /\ outer_retry_count' = outer_retry_count + 1
    /\ IF InterfaceShouldRetry(status, outer_retry_count + 1)
       THEN /\ log' = Append(logged, <<"sleep", WaitTime(outer_retry_count + 1)>>)
            /\ pc' = "tool"
            /\ UNCHANGED result
       ELSE /\ log' = logged
            /\ result' = Raise(StatusError(status))
            /\ pc' = "done"

\* `if "document" not in self.pab_client._tools:` has found no entry: the POST
\* of PABClient.add_tool in the try block of the tool creation loop.
InterfaceAddTool ==
    /\ op = "AgentInterface.add_document"
    /\ pc = "tool"
    /\ \E answer \in {"ok"} \cup HttpErrors :
         LET posted == Append(log, <<"POST tool", answer>>)
         IN  /\ last_response' = Response("POST tool", answer)
             /\ IF answer = "ok"
                THEN /\ server' = Created("document")
                     /\ registry' = Put(registry, "document", Len(server) + 1)
                     /\ log' = posted
                     /\ pc' = "tool poll"
                     /\ UNCHANGED <<result, outer_retry_count>>
                ELSE /\ ToolStatusErrorHandler(answer, posted)
                     /\ UNCHANGED <<server, registry>>
    /\ UNCHANGED <<op, max_attempts, history_id, script, attempt, all_messages,
                   chat_state, retry_count, server_history, continuation_id,
                   createVars, tokenVars, extraVars>>

\* One fetch of _wait_for_tool_ready inside add_tool: with the tool ready the
\* loop is left by `break` and retry_count is set back to 0 for the upload.
InterfaceToolWaitFetch ==
    /\ op = "AgentInterface.add_document"
    /\ pc = "tool poll"
    /\ \E answer \in LegacyFetchAnswers :
         LET out == WaitLoopBody(answer, EntityReady(answer))
             fetched == Append(log, <<"GET tool", answer>>)
         IN  /\ last_response' = Response("GET tool", answer)
             /\ IF out = Running
                THEN UNCHANGED <<pc, log, result, outer_retry_count>>
                ELSE IF out.kind = "return"
                THEN /\ outer_retry_count' = 0
                     /\ pc' = "upload"
                     /\ log' = fetched
                     /\ UNCHANGED result
                ELSE IF answer \in HttpErrors
                THEN ToolStatusErrorHandler(answer, fetched)
                ELSE /\ result' = out
                     /\ pc' = "done"
                     /\ log' = fetched
                     /\ UNCHANGED outer_retry_count
    /\ UNCHANGED <<op, max_attempts, history_id, script, attempt, all_messages,
                   chat_state, retry_count, server_history, continuation_id,
                   registry, server, createVars, tokenVars, extraVars>>

\* What follows `await self.pab_client.add_document(...)` in the try block:
\* `return doc_id`, or the except clause the exception lands in. After
\* the backoff sleep the loop goes round and calls PABClient.add_document
\* again, which starts with a retry_count of 0.
InterfaceAddDocumentReturned ==
    /\ op = "AgentInterface.add_document"
    /\ pc = "returned"
    /\ IF IsStatusError(result)
       THEN /\ outer_retry_count' = outer_retry_count + 1
            /\ IF InterfaceShouldRetry(last_response.status, outer_retry_count + 1)
               THEN /\ log' = Append(log, <<"sleep", WaitTime(outer_retry_count + 1)>>)
                    /\ result' = Running
                    /\ retry_count' = 0
                    /\ pc' = "upload"
               ELSE /\ pc' = "done"
                    /\ UNCHANGED <<log, result, retry_count>>
       ELSE /\ pc' = "done"
            /\ UNCHANGED <<log, result, retry_count, outer_retry_count>>
    /\ UNCHANGED <<op, max_attempts, history_id, script, attempt, all_messages,
                   chat_state, last_response, server_history, continuation_id,
                   registry, server, createVars, tokenVars, extraVars>>

(***************************************************************************)
(* pab_client.AgentInterface: list_documents and remove_document.          *)
(***************************************************************************)
DocumentOps == {"AgentInterface.add_document", "list_documents", "remove_document"}

\* list_documents: with no "document" in the registry `return []`, otherwise
\* the GET of the tool's resources.
ListDocuments ==
    /\ op = "list_documents"
    /\ pc = "call"
    /\ IF "document" \notin DOMAIN registry
       THEN /\ result' = Return("[]")
            /\ UNCHANGED <<log, last_response>>
       ELSE \E answer \in {"ok"} \cup HttpErrors :
              /\ log' = Append(log, <<"GET resources", answer>>)
              /\ last_response' = Response("GET resources", answer)
              /\ result' = IF answer = "ok" THEN Return("resources")
                           ELSE Raise(StatusError(answer))
    /\ pc' = "done"
    /\ UNCHANGED <<op, max_attempts, history_id, script, attempt, all_messages,
                   chat_state, retry_count, server_history, continuation_id,
                   interfaceVars, createVars, tokenVars, extraVars>>

\* remove_document: with no "document" in the registry `return False`,
\* otherwise the GET of the tool's resources and, with the document among
\* them, its DELETE.
RemoveDocument ==
    /\ op = "remove_document"
    /\ pc = "call"
    /\ IF "document" \notin DOMAIN registry
       THEN /\ result' = Return("False")
            /\ UNCHANGED <<log, last_response>>
       ELSE \E listed \in {"found", "not found"} \cup HttpErrors,
               deleted \in {"ok"} \cup HttpErrors :
              LET got == Append(log, <<"GET resources", listed>>)
              IN  IF listed \in HttpErrors
                  THEN /\ log' = got
                       /\ last_response' = Response("GET resources", listed)
                       /\ result' = Raise(StatusError(listed))
                  ELSE IF listed = "not found"
                  THEN /\ log' = got
                       /\ last_response' = Response("GET resources", listed)
                       /\ result' = Return("False")
                  ELSE /\ log' = Append(got, <<"DELETE", deleted>>)
                       /\ last_response' = Response("DELETE", deleted)
                       /\ result' = IF deleted = "ok" THEN Return("True")
                                    ELSE Raise(StatusError(deleted))
    /\ pc' = "done"
    /\ UNCHANGED <<op, max_attempts, history_id, script, attempt, all_messages,
                   chat_state, retry_count, server_history, continuation_id,
                   interfaceVars, createVars, tokenVars, extraVars>>

InitDocuments ==
    /\ op \in {"list_documents", "remove_document"}
    /\ \E state \in DocumentStates : registry = state[1] /\ server = state[2]
    /\ pc = "call"
    /\ outer_retry_count = 0
    /\ max_attempts = 0
    /\ history_id = None
    /\ script = <<>>
    /\ attempt = 0
    /\ all_messages = <<>>
    /\ chat_state = None
    /\ log = <<>>
    /\ result = Running
    /\ LegacyIdle
    /\ CreateIdle
    /\ TokenIdle
    /\ ExtraIdle

(***************************************************************************)
(* pab_client.AgentInterface: __call__ and continue_message, each a POST   *)
(* followed by a poll of the history filtered by previous/ID.              *)
(***************************************************************************)
\* The nodes of a chat on the server, by identifier, with the node each one
\* points back to (previous/ID): requests h0 and h1 and their replies a0 and a1,
\* the request node of a continuation (c1 unlinked, c2 linked to the reply it
\* continues) and the replies b1 and b2 to the continuation.
PreviousOf(n) ==
    CASE n = "a0" -> "h0"
      [] n = "a1" -> "h1"
      [] n = "b1" -> "c1"
      [] n = "c2" -> "a1"
      [] n = "b2" -> "c2"
      [] OTHER -> None

\* A reply the agent may add to the chat: a node not yet there that points
\* back to a node that is.
MayAppear(history) ==
    { n \in {"a0", "a1", "b1", "b2"} :
        /\ \A i \in 1..Len(history) : history[i] # n
        /\ \E i \in 1..Len(history) : history[i] = PreviousOf(n) }

\* `if chat_data.get("state") == "failed"`
ChatDataFailed(state) == state = "failed"

\* GET .../history?$filter=previous/ID eq {hid}: the nodes the filter keeps.
FilterByPrevious(history, hid) ==
    LET Keeps(n) == PreviousOf(n) = hid
    IN  SelectSeq(history, Keeps)

\* The identifier the poll of __call__ filters by: the historyId of the response
\* to sendMessage.
CallCorrelation(response_id, hid) == response_id

\* The identifier the poll of continue_message filters by: its history_id
\* argument (the response to continueMessage is not read).
ContinueCorrelation(response_id, hid) == hid

\* __call__: the sendMessage POST.
CallSend ==
    /\ op = "__call__"
    /\ pc = "send"
    /\ \E answer \in {"ok", "no historyId"} \cup HttpErrors :
         /\ last_response' = Response("POST", answer)
         /\ IF answer \in HttpErrors
            THEN /\ result' = Raise(StatusError(answer))
                 /\ pc' = "done"
                 /\ UNCHANGED <<history_id, server_history>>
            ELSE /\ server_history' = Append(server_history, "h1")
                 /\ IF answer = "no historyId"
                    THEN /\ result' = Raise("KeyError")
                         /\ pc' = "done"
                         /\ UNCHANGED history_id
                    ELSE /\ history_id' = CallCorrelation("h1", history_id)
                         /\ pc' = "poll"
                         /\ UNCHANGED result
    /\ UNCHANGED <<op, max_attempts, script, attempt, all_messages, chat_state, log,
                   retry_count, continuation_id>>
    /\ UNCHANGED <<interfaceVars, createVars, tokenVars, extraVars>>

\* continue_message: the continueMessage POST. The server files the request as
\* a new node and answers with its identifier.
ContinueSend ==
    /\ op = "continue_message"
    /\ pc = "send"
    /\ \E answer \in {"ok"} \cup HttpErrors, c \in {"c1", "c2"} :
         /\ last_response' = Response("POST", answer)
         /\ IF answer \in HttpErrors
            THEN /\ result' = Raise(StatusError(answer))
                 /\ pc' = "done"
                 /\ UNCHANGED <<history_id, server_history, continuation_id>>
            ELSE /\ server_history' = Append(server_history, c)
                 /\ continuation_id' = c
                 /\ history_id' = ContinueCorrelation(c, history_id)
                 /\ pc' = "poll"
                 /\ UNCHANGED result
    /\ UNCHANGED <<op, max_attempts, script, attempt, all_messages, chat_state, log,
                   retry_count>>
    /\ UNCHANGED <<interfaceVars, createVars, tokenVars, extraVars>>

\* One pass through `while True:`: the filtered history GET, and with no answer
\* the GET of the chat's state. Before it the agent may have added a reply.
ReplyPollStep ==
    /\ pc = "poll"
    /\ \E grown \in {server_history} \cup { Append(server_history, n) : n \in MayAppear(server_history) },
          cs \in ChatStates, api \in {"ok", "history 503", "chat 503"} :
         LET answers == FilterByPrevious(grown, history_id)
         IN  /\ server_history' = grown
             /\ chat_state' = cs
             /\ IF api = "history 503"
                THEN /\ last_response' = Response("GET history", "503")
                     /\ result' = Raise(StatusError("503"))
                     /\ pc' = "done"
                ELSE IF answers # <<>>
                THEN /\ last_response' = Response("GET history", "ok")
                     /\ result' = Return(answers[1])
                     /\ pc' = "done"
                ELSE IF api = "chat 503"
                THEN /\ last_response' = Response("GET chat", "503")
                     /\ result' = Raise(StatusError("503"))
                     /\ pc' = "done"
                ELSE IF ChatDataFailed(cs)
                THEN /\ last_response' = Response("GET chat", cs)
                     /\ result' = Raise("RuntimeError: Chat failed")
                     /\ pc' = "done"
                ELSE /\ last_response' = Response("GET chat", cs)
                     /\ pc' = "sleep"
                     /\ UNCHANGED result
    /\ UNCHANGED <<op, max_attempts, history_id, script, attempt, all_messages, log,
                   retry_count, continuation_id>>
    /\ UNCHANGED <<interfaceVars, createVars, tokenVars, extraVars>>

\* The poll of __call__.
CallPoll ==
    /\ op = "__call__"
    /\ ReplyPollStep

\* The poll of continue_message.
ContinuePoll ==
    /\ op = "continue_message"
    /\ ReplyPollStep

\* __call__ on a chat that is new or holds an earlier turn; continue_message on
\* a chat that holds the request h1 and its reply a1, for either of them.
InitReply ==
    /\ \/ /\ op = "__call__"
          /\ history_id = None
          /\ server_history \in {<<>>, <<"h0", "a0">>}
       \/ /\ op = "continue_message"
          /\ history_id \in {"h1", "a1"}
          /\ server_history = <<"h1", "a1">>
    /\ pc = "send"
    /\ max_attempts = 0
    /\ script = <<>>
    /\ attempt = 0
    /\ all_messages = <<>>
    /\ chat_state = None
    /\ log = <<>>
    /\ result = Running
    /\ InterfaceIdle
    /\ CreateIdle
    /\ TokenIdle
    /\ ExtraIdle
    /\ retry_count = 0
    /\ last_response = NoResponse
    /\ continuation_id = None

(***************************************************************************)
(* The create calls: create_chat, create_agent and create_tool of          *)
(* pab_sdk.client.AgentBuilderClient, add_tool and create_agent of         *)
(* pab_client.PABClient. One behaviour is two calls with the same name     *)
(* argument: one after the other on one client, or (pab_sdk) interleaved   *)
(* from two client instances. Every action is one request of one call.     *)
(***************************************************************************)
MaxEntities == 2        \* the collection holds at most MaxEntities entities at the start

SdkCreateOps == {"create_chat", "create_agent", "create_tool"}
CreateOps == SdkCreateOps \cup {"add_tool", "PABClient.create_agent"}
Callers == {1, 2}
Names == {"n1", "n2"}

\* `unique_name = f"{unique_name}-{str(uuid.uuid4())[:8]}"`, for the eight
\* characters uuid4 gave.
Suffixes == {"u1", "u2"}
UniqueName(name, suffix) == name \o "-" \o suffix

\* The names the entities on the server carry at the start: agents made by
\* PABClient.create_agent carry a suffixed name.
NamesOnServer(o) ==
    IF o = "PABClient.create_agent"
    THEN { UniqueName(n, u) : n \in Names, u \in Suffixes }
    ELSE Names

\* The collection at the start: identifiers are given in order of creation.
ServerStates(o) ==
    UNION { { [i \in 1..n |-> [ID |-> i, name |-> f[i]]] : f \in [1..n -> NamesOnServer(o)] } :
            n \in 0..MaxEntities }

\* Mutants of FirstByName: the lookup finds nothing, and the lookup answers
\* the last entity of that name.
FirstByNameNothing(listing, name) == 0
FirstByNameLast(listing, name) ==
    IF \E i \in 1..Len(listing) : listing[i].name = name
    THEN listing[CHOOSE i \in 1..Len(listing) :
                    /\ listing[i].name = name
                    /\ \A j \in (i + 1)..Len(listing) : listing[j].name # name].ID
    ELSE 0

\* `next((c for c in existing if c.name == name), None)` and the loop of
\* _find_existing_agent_by_name: the ID of the first entity of the listing with
\* that name, 0 for None.
FirstByName(listing, name) ==
    IF \E i \in 1..Len(listing) : listing[i].name = name
    THEN listing[CHOOSE i \in 1..Len(listing) :
                    /\ listing[i].name = name
                    /\ \A j \in 1..(i - 1) : listing[j].name # name].ID
    ELSE 0

\* The second call starts when the first has ended, unless the two calls come
\* from two client instances.
MayStep(c) == calls[c].pc # "done" /\ (c = 1 \/ concurrent \/ calls[1].pc = "done")

Ended(c, r) == [calls EXCEPT ![c].pc = "done", ![c].result = r]

\* What the create calls leave alone.
CreateFrame ==
    UNCHANGED <<op, pc, max_attempts, history_id, script, attempt, all_messages,
                chat_state, result, retry_count, last_response, server_history,
                continuation_id, outer_retry_count, arg_name, concurrent, tokenVars, extraVars>>

\* create_chat / create_agent of pab_sdk: the listing and the lookup by name.
ListStep(c) ==
    /\ op \in {"create_chat", "create_agent"}
    /\ MayStep(c)
    /\ calls[c].pc = "list"
    /\ log' = Append(log, <<"GET list", c>>)
    /\ \E answer \in {"ok", "ApiError"} :
         LET existing == FirstByName(server, calls[c].name)
         IN  calls' = IF answer = "ApiError" THEN Ended(c, Raise(RequestFailed))
                      ELSE IF existing = 0 THEN [calls EXCEPT ![c].pc = "post"]
                      ELSE IF op = "create_chat"
                      THEN [calls EXCEPT ![c].pc = "done", ![c].found = existing,
                                         ![c].result = Return(existing)]
                      ELSE [calls EXCEPT ![c].pc = "patch", ![c].found = existing]
    /\ UNCHANGED <<server, registry>>
    /\ CreateFrame

\* create_agent of pab_sdk: the PATCH of the agent found.
PatchStep(c) ==
    /\ op = "create_agent"
    /\ MayStep(c)
    /\ calls[c].pc = "patch"
    /\ log' = Append(log, <<"PATCH", c>>)
    /\ \E answer \in {"ok", "ApiError"} :
         calls' = IF answer = "ApiError" THEN Ended(c, Raise(RequestFailed))
                  ELSE [calls EXCEPT ![c].pc = "get"]
    /\ UNCHANGED <<server, registry>>
    /\ CreateFrame

\* create_chat / create_agent / create_tool of pab_sdk: the creation POST.
PostStep(c) ==
    /\ op \in SdkCreateOps
    /\ MayStep(c)
    /\ calls[c].pc = "post"
    /\ log' = Append(log, <<"POST", c>>)
    /\ \E answer \in {"ok", "ApiError"} :
         IF answer = "ApiError"
         THEN calls' = Ended(c, Raise(RequestFailed)) /\ UNCHANGED server
         ELSE /\ server' = Created(calls[c].name)
              /\ calls' = [calls EXCEPT ![c].pc = "get", ![c].created = Len(server) + 1]
    /\ UNCHANGED registry
    /\ CreateFrame

\* get_chat / get_agent / get_tool on the identifier found or created: the
\* entity the call returns.
GetStep(c) ==
    /\ op \in SdkCreateOps
    /\ MayStep(c)
    /\ calls[c].pc = "get"
    /\ log' = Append(log, <<"GET", c>>)
    /\ \E answer \in {"ok", "ApiError"} :
         calls' = IF answer = "ApiError" THEN Ended(c, Raise(RequestFailed))
                  ELSE Ended(c, Return(IF calls[c].found # 0 THEN calls[c].found
                                       ELSE calls[c].created))
    /\ UNCHANGED <<server, registry>>
    /\ CreateFrame

CreateList == \E c \in Callers : ListStep(c)
CreatePatch == \E c \in Callers : PatchStep(c)
CreatePost == \E c \in Callers : PostStep(c)
CreateGet == \E c \in Callers : GetStep(c)

\* PABClient.add_tool: the creation POST and the entry in the registry.
AddToolPostStep(c) ==
    /\ op = "add_tool"
    /\ MayStep(c)
    /\ calls[c].pc = "post"
    /\ log' = Append(log, <<"POST", c>>)
    /\ \E answer \in {"ok"} \cup HttpErrors :
         IF answer \in HttpErrors
         THEN calls' = Ended(c, Raise(StatusError(answer))) /\ UNCHANGED <<server, registry>>
         ELSE /\ server' = Created(calls[c].name)
              /\ registry' = Put(registry, calls[c].name, Len(server) + 1)
              /\ calls' = [calls EXCEPT ![c].pc = "wait", ![c].created = Len(server) + 1]
    /\ CreateFrame

\* PABClient.create_agent: the suffixed name and _find_existing_agent_by_name,
\* which answers None when its GET fails.
FindStep(c) ==
    /\ op = "PABClient.create_agent"
    /\ MayStep(c)
    /\ calls[c].pc = "find"
    /\ log' = Append(log, <<"GET list", c>>)
    /\ \E suffix \in Suffixes, answer \in {"ok"} \cup HttpErrors :
         LET unique_name == UniqueName(arg_name, suffix)
             existing_agent_id == IF answer = "ok" THEN FirstByName(server, unique_name) ELSE 0
         IN  calls' = IF existing_agent_id # 0
                      THEN [calls EXCEPT ![c].pc = "patch", ![c].name = unique_name,
                                         ![c].found = existing_agent_id]
                      ELSE [calls EXCEPT ![c].pc = "post", ![c].name = unique_name]
    /\ UNCHANGED <<server, registry>>
    /\ CreateFrame

\* PABClient.create_agent: _update_agent, whose failure is only logged, and
\* `self._agent_id = existing_agent_id`.
UpdateStep(c) ==
    /\ op = "PABClient.create_agent"
    /\ MayStep(c)
    /\ calls[c].pc = "patch"
    /\ log' = Append(log, <<"PATCH", c>>)
    /\ calls' = [calls EXCEPT ![c].pc = "wait"]
    /\ UNCHANGED <<server, registry>>
    /\ CreateFrame

\* What a creation POST of PABClient.create_agent can give: the entity, a
\* service-unavailable response, or another response raise_for_status() rejects.
CreationAnswers == {"ok", "503", "500"}

\* PABClient.create_agent: the creation POST, sent a second time when the first
\* raises; what the second raises ends the call.
AgentPostStep(c) ==
    /\ op = "PABClient.create_agent"
    /\ MayStep(c)
    /\ calls[c].pc \in {"post", "retry post"}
    /\ \E answer \in CreationAnswers :
         /\ log' = Append(log, <<"POST", c, answer>>)
         /\ IF answer = "ok"
            THEN /\ server' = Created(calls[c].name)
                 /\ calls' = [calls EXCEPT ![c].pc = "wait",
                                           ![c].created = Len(server) + 1]
            ELSE /\ calls' = IF calls[c].pc = "post"
                             THEN [calls EXCEPT ![c].pc = "retry post"]
                             ELSE Ended(c, Raise(StatusError(answer)))
                 /\ UNCHANGED server
    /\ UNCHANGED registry
    /\ CreateFrame

\* One fetch of _wait_for_tool_ready (add_tool) or _wait_for_agent_ready
\* (create_agent); after a sleep the loop goes round.
ReadyWaitStep(c) ==
    /\ op \in {"add_tool", "PABClient.create_agent"}
    /\ MayStep(c)
    /\ calls[c].pc = "wait"
    /\ \E answer \in LegacyFetchAnswers :
         LET out == WaitLoopBody(answer, IF op = "add_tool" THEN EntityReady(answer)
                                         ELSE AgentReady(answer))
         IN  /\ calls' = IF out = Running THEN calls
                         ELSE IF out.kind = "raise" THEN Ended(c, out)
                         ELSE IF op = "add_tool" THEN Ended(c, Return(calls[c].created))
                         ELSE [calls EXCEPT ![c].pc = "initialize"]
             /\ log' = IF out = Running THEN log ELSE Append(log, <<"GET", c>>)
    /\ UNCHANGED <<server, registry>>
    /\ CreateFrame

\* PABClient.create_agent: AgentInterface.initialize with no chat_id, that is
\* _create_chat: a POST, sent a second time when the first raises. The call
\* returns the interface to the agent self._agent_id.
InitializeStep(c) ==
    /\ op = "PABClient.create_agent"
    /\ MayStep(c)
    /\ calls[c].pc = "initialize"
    /\ \E first \in CreationAnswers, second \in CreationAnswers :
         /\ log' = IF first = "ok" THEN Append(log, <<"POST chat", c, first>>)
                   ELSE log \o <<<<"POST chat", c, first>>, <<"POST chat", c, second>>>>
         /\ calls' = IF first = "ok" \/ second = "ok"
                     THEN Ended(c, Return(IF calls[c].found # 0 THEN calls[c].found
                                          ELSE calls[c].created))
                     ELSE Ended(c, Raise(StatusError(second)))
    /\ UNCHANGED <<server, registry>>
    /\ CreateFrame

AddToolPost == \E c \in Callers : AddToolPostStep(c)
CreateAgentFind == \E c \in Callers : FindStep(c)
CreateAgentUpdate == \E c \in Callers : UpdateStep(c)
CreateAgentPost == \E c \in Callers : AgentPostStep(c)
CreateReadyWait == \E c \in Callers : ReadyWaitStep(c)
CreateAgentInitialize == \E c \in Callers : InitializeStep(c)

\* Where a create call starts.
StartPc(o) ==
    IF o \in {"create_chat", "create_agent"} THEN "list"
    ELSE IF o \in {"create_tool", "add_tool"} THEN "post"
    ELSE "find"

StartCall(o, name) ==
    [pc |-> StartPc(o), name |-> IF o = "PABClient.create_agent" THEN None ELSE name,
     found |-> 0, created |-> 0, result |-> Running]

InitCreate ==
    /\ op \in CreateOps
    /\ arg_name \in Names
    /\ concurrent \in (IF op \in SdkCreateOps THEN BOOLEAN ELSE {FALSE})
    /\ server \in ServerStates(op)
    /\ calls = <<StartCall(op, arg_name), StartCall(op, arg_name)>>
    /\ registry = EmptyDict
    /\ outer_retry_count = 0
    /\ pc = "calls"
    /\ max_attempts = 0
    /\ history_id = None
    /\ script = <<>>
    /\ attempt = 0
    /\ all_messages = <<>>
    /\ chat_state = None
    /\ log = <<>>
    /\ result = Running
    /\ LegacyIdle
    /\ TokenIdle
    /\ ExtraIdle

(***************************************************************************)
(* The access token: TokenManager.get_token of pab_sdk.auth and            *)
(* PABClient._get_token. One behaviour is a series of calls on one         *)
(* instance, with time passing between them. Time is counted in minutes.   *)
(***************************************************************************)
MaxClock == 22          \* the clock runs for MaxClock minutes
MaxCalls == 3           \* at most MaxCalls calls are made

TokenOps == {"get_token", "_get_token"}

\* time.time() when the instance is built: minutes since 1970.
Epoch == 29000000

\* expires_in of a grant: 600 s or 1200 s.
Lifetimes == {10, 20}

\* The 60 (seconds) of `time.time() + 60`.
margin == 1

\* Mutant of ExpiresAt: the expiry without the factor 0.9.
ExpiresAtFull(t, expires_in) == t + expires_in

\* TokenManager._refresh_token: `time.time() + token_data["expires_in"] * 0.9`
ExpiresAt(t, expires_in) == t + (9 * expires_in) \div 10

\* TokenManager.get_token:
\* `not self._token or not self._expires_at or self._expires_at <= time.time() + 60`
NeedsRefresh(tok, expiry, t) == tok.serial = 0 \/ expiry = 0 \/ expiry <= t + margin

\* PABClient._refresh_token: `time.time() + data["expires_in"]`
LegacyTokenExpiry(t, expires_in) == t + expires_in

\* PABClient._get_token: `not self._token or time.time() > self._token_expiry * 0.9`
LegacyNeedsRefresh(tok, expiry, t) == tok.serial = 0 \/ 10 * t > 9 * expiry

\* How a grant request can fail: no connection, a status that is not 2xx, or a
\* 2xx body without one of the two fields the code reads.
GrantFailures == {"network error", "non-2xx", "no access_token", "no expires_in"}

\* TokenManager._refresh_token: `except requests.RequestException` turns what
\* requests.post and raise_for_status raise into AuthenticationError; the
\* KeyError of `token_data[...]` is no RequestException and passes through.
RefreshError(failure) ==
    IF failure \in {"network error", "non-2xx"} THEN "AuthenticationError"
    ELSE "KeyError"

\* PABClient._refresh_token catches nothing.
LegacyRefreshError(failure) ==
    IF failure = "network error" THEN "ConnectError"
    ELSE IF failure = "non-2xx" THEN "HTTPStatusError"
    ELSE "KeyError"

\* The token a grant answered with access_token but without expires_in leaves
\* behind: `self._token = token_data["access_token"]` runs before the KeyError.
HalfStored(serial, t) == [serial |-> serial, issued_at |-> t, expires_in |-> 0]

\* One call: the test, with a refresh the grant request (answered with a token
\* of some lifetime, or failing, which the call raises), and the return of
\* self._token. PABClient._get_token multiplies self._token_expiry, which is
\* still None after a grant without expires_in: TypeError.
TokenStep(needs, legacy) ==
    /\ calls_made < MaxCalls
    /\ calls_made' = calls_made + 1
    /\ IF legacy /\ token.serial # 0 /\ expires_at = 0
       THEN /\ last_call' = [kind |-> "raise", error |-> "TypeError", at |-> now,
                             before |-> token, granted |-> 0, returned |-> 0]
            /\ UNCHANGED <<token, expires_at, grants>>
       ELSE IF needs
       THEN /\ grants' = grants + 1
            /\ \/ \E expires_in \in Lifetimes :
                    /\ token' = [serial |-> grants + 1, issued_at |-> now,
                                 expires_in |-> expires_in]
                    /\ expires_at' = IF legacy THEN LegacyTokenExpiry(now, expires_in)
                                      ELSE ExpiresAt(now, expires_in)
                    /\ last_call' = [kind |-> "return", error |-> None, at |-> now,
                                     before |-> token, granted |-> 1,
                                     returned |-> grants + 1]
               \/ \E failure \in GrantFailures :
                    /\ token' = IF failure = "no expires_in"
                                THEN HalfStored(grants + 1, now) ELSE token
                    /\ last_call' = [kind |-> "raise",
                                     error |-> IF legacy THEN LegacyRefreshError(failure)
                                               ELSE RefreshError(failure),
                                     at |-> now, before |-> token, granted |-> 1,
                                     returned |-> 0]
                    /\ UNCHANGED expires_at
       ELSE /\ last_call' = [kind |-> "return", error |-> None, at |-> now,
                             before |-> token, granted |-> 0,
                             returned |-> token.serial]
            /\ UNCHANGED <<token, expires_at, grants>>
    /\ UNCHANGED now

\* What a call of get_token / _get_token leaves alone.
TokenFrame ==
    UNCHANGED <<op, pc, max_attempts, history_id, script, attempt, all_messages,
                chat_state, log, result, legacyVars, interfaceVars, createVars,
                extraVars>>

GetToken ==
    /\ op = "get_token"
    /\ TokenStep(NeedsRefresh(token, expires_at, now), FALSE)
    /\ TokenFrame

LegacyGetToken ==
    /\ op = "_get_token"
    /\ TokenStep(LegacyNeedsRefresh(token, expires_at, now), TRUE)
    /\ TokenFrame

\* AgentBuilderClient._make_request, the path of every operation of the
\* client: `headers = self._get_headers()` asks the TokenManager for the token
\* before the try, so what get_token raises leaves the call as it is and no
\* request is sent; with the token, one request, whose RequestException
\* becomes ApiError. The log holds the number of the call that sent each
\* request.
MakeRequestOp == "_make_request"

MakeRequest ==
    /\ op = MakeRequestOp
    /\ TokenStep(NeedsRefresh(token, expires_at, now), FALSE)
    /\ IF last_call'.kind = "raise"
       THEN /\ result' = Raise(last_call'.error)
            /\ UNCHANGED log
       ELSE /\ log' = Append(log, <<"API request", calls_made'>>)
            /\ \/ result' = Return("response")
               \/ result' = Raise(RequestFailed)
    /\ UNCHANGED <<op, pc, max_attempts, history_id, script, attempt, all_messages,
                   chat_state, legacyVars, interfaceVars, createVars, extraVars>>

\* A minute passes.
Tick ==
    /\ op \in TokenOps \cup {MakeRequestOp}
    /\ now < Epoch + MaxClock
    /\ now' = now + 1
    /\ UNCHANGED <<op, pc, max_attempts, history_id, script, attempt, all_messages,
                   chat_state, log, result, legacyVars, interfaceVars, createVars,
                   token, expires_at, grants, calls_made, last_call, extraVars>>

\* A new instance: no token, no expiry.
InitToken ==
    /\ op \in TokenOps
    /\ now = Epoch
    /\ token = NoToken
    /\ expires_at = 0
    /\ grants = 0
    /\ calls_made = 0
    /\ last_call = NotCalled
    /\ pc = "calls"
    /\ max_attempts = 0
    /\ history_id = None
    /\ script = <<>>
    /\ attempt = 0
    /\ all_messages = <<>>
    /\ chat_state = None
    /\ log = <<>>
    /\ result = Running
    /\ LegacyIdle
    /\ InterfaceIdle
    /\ CreateIdle
    /\ ExtraIdle

\* A new AgentBuilderClient: its TokenManager holds no token.
InitClient ==
    /\ op = MakeRequestOp
    /\ now = Epoch
    /\ token = NoToken
    /\ expires_at = 0
    /\ grants = 0
    /\ calls_made = 0
    /\ last_call = NotCalled
    /\ pc = "calls"
    /\ max_attempts = 0
    /\ history_id = None
    /\ script = <<>>
    /\ attempt = 0
    /\ all_messages = <<>>
    /\ chat_state = None
    /\ log = <<>>
    /\ result = Running
    /\ LegacyIdle
    /\ InterfaceIdle
    /\ CreateIdle
    /\ ExtraIdle

(***************************************************************************)
(* Cancel: AgentBuilderClient.cancel_chat of pab_sdk and                   *)
(* AgentInterface.cancel of pab_client.                                    *)
(***************************************************************************)
CancelOps == {"cancel_chat", "AgentInterface.cancel"}

\* What the POST of the cancel action can give: a 2xx response, a response
\* raise_for_status() rejects, or a request that does not complete.
CancelAnswers == {"ok"} \cup HttpErrors \cup {"ConnectError"}

\* The requests of one cancel call: the POST of the cancel action and no
\* request for the state of the chat after it.
CancelRequestsThenPoll(answer) == <<<<"POST cancel", answer>>, <<"GET chat", answer>>>>
CancelRequests(answer) == <<<<"POST cancel", answer>>>>

\* AgentBuilderClient.cancel_chat: _make_request asks the TokenManager for the
\* token (_get_headers, outside its try), sends the POST and turns every
\* RequestException into ApiError; cancel_chat returns None.
CancelChat ==
    /\ op = "cancel_chat"
    /\ pc = "call"
    /\ TokenStep(NeedsRefresh(token, expires_at, now), FALSE)
    /\ IF last_call'.kind = "raise"
       THEN /\ result' = Raise(last_call'.error)
            /\ UNCHANGED log
       ELSE \E answer \in CancelAnswers :
              /\ log' = log \o CancelRequests(answer)
              /\ result' = IF answer = "ok" THEN Return(None) ELSE Raise(RequestFailed)
    /\ pc' = "done"
    /\ UNCHANGED <<op, max_attempts, history_id, script, attempt, all_messages,
                   chat_state, legacyVars, interfaceVars, createVars, extraVars>>

\* The TokenManager of a client in use: no token yet, or the token of one grant
\* made some minutes ago.
InitCancelChat ==
    /\ op = "cancel_chat"
    /\ pc = "call"
    /\ \/ /\ token = NoToken
          /\ expires_at = 0
          /\ grants = 0
          /\ now = Epoch
       \/ \E expires_in \in Lifetimes : \E age \in 0..expires_in :
             /\ token = [serial |-> 1, issued_at |-> Epoch, expires_in |-> expires_in]
             /\ expires_at = ExpiresAt(Epoch, expires_in)
             /\ grants = 1
             /\ now = Epoch + age
    /\ calls_made = 0
    /\ last_call = NotCalled
    /\ max_attempts = 0
    /\ history_id = None
    /\ script = <<>>
    /\ attempt = 0
    /\ all_messages = <<>>
    /\ chat_state = None
    /\ log = <<>>
    /\ result = Running
    /\ LegacyIdle
    /\ InterfaceIdle
    /\ CreateIdle
    /\ ExtraIdle

\* AgentInterface.cancel: the test of the two identifiers, then one POST on the
\* httpx client the interface was built with, and raise_for_status().
InterfaceCancel ==
    /\ op = "AgentInterface.cancel"
    /\ pc = "call"
    /\ IF agent_id = None \/ chat_id = None
       THEN /\ result' = Raise("ValueError: Agent or chat not initialized")
            /\ UNCHANGED log
       ELSE \E answer \in CancelAnswers :
              /\ log' = log \o CancelRequests(answer)
              /\ result' = IF answer = "ok" THEN Return(None)
                           ELSE IF answer \in HttpErrors THEN Raise(StatusError(answer))
                           ELSE Raise("ConnectError")
    /\ pc' = "done"
    /\ UNCHANGED <<op, max_attempts, history_id, script, attempt, all_messages,
                   chat_state, legacyVars, interfaceVars, createVars, tokenVars,
                   extraVars>>

\* An interface of a client that is or is not bound to an agent and a chat, with
\* or without the "document" tool in its registry.
InitInterfaceCancel ==
    /\ op = "AgentInterface.cancel"
    /\ pc = "call"
    /\ agent_id \in {None, "a1"}
    /\ chat_id \in {None, "c1"}
    /\ interfaces = <<>>
    /\ \/ /\ registry = EmptyDict
          /\ registry_scope = EmptyDict
          /\ server = <<>>
       \/ /\ agent_id # None
          /\ registry = Put(EmptyDict, "document", 1)
          /\ registry_scope = Put(EmptyDict, "document", agent_id)
          /\ server = <<[ID |-> 1, name |-> "document"]>>
    /\ outer_retry_count = 0
    /\ max_attempts = 0
    /\ history_id = None
    /\ script = <<>>
    /\ attempt = 0
    /\ all_messages = <<>>
    /\ chat_state = None
    /\ log = <<>>
    /\ result = Running
    /\ LegacyIdle
    /\ CreateIdle
    /\ TokenIdle
    /\ RaceIdle
    /\ DiagIdle
    /\ CacheIdle

(***************************************************************************)
(* Two threads inside TokenManager.get_token of one instance. The method   *)
(* takes no lock, so the threads interleave between its statements: the    *)
(* test of line 54, the grant request of line 81, the two assignments of   *)
(* lines 85 and 87, and the read of self._token of line 57.                *)
(***************************************************************************)
MaxRaceClock == 2       \* the clock runs for MaxRaceClock minutes while the threads run

RaceOp == "get_token x2"
Threads == {1, 2}

StartThread == [pc |-> "check", granted |-> NoToken, error |-> None, returned |-> 0]

ThreadAt(t, label) ==
    /\ op = RaceOp
    /\ threads[t].pc = label

Moved(t, label) == [threads EXCEPT ![t].pc = label]

RaceFrame ==
    UNCHANGED <<op, pc, max_attempts, history_id, script, attempt, all_messages,
                chat_state, log, result, legacyVars, interfaceVars, createVars,
                calls_made, last_call, diagVars, sessionVars, cacheVars>>

\* Line 54: the test.
ThreadCheck ==
    \E t \in Threads :
        /\ ThreadAt(t, "check")
        /\ threads' = Moved(t, IF NeedsRefresh(token, expires_at, now)
                               THEN "request" ELSE "return")
        /\ UNCHANGED <<now, token, expires_at, grants>>
        /\ RaceFrame

\* Lines 81-84: the grant request and its answer.
ThreadRequest ==
    \E t \in Threads :
        /\ ThreadAt(t, "request")
        /\ grants' = grants + 1
        /\ \/ \E expires_in \in Lifetimes :
                threads' = [threads EXCEPT
                    ![t].pc = "store token",
                    ![t].granted = [serial |-> grants + 1, issued_at |-> now,
                                    expires_in |-> expires_in]]
           \/ threads' = [threads EXCEPT
                    ![t].pc = "store token",
                    ![t].granted = HalfStored(grants + 1, now)]
           \/ \E failure \in GrantFailures \ {"no expires_in"} :
                threads' = [threads EXCEPT
                    ![t].pc = "done",
                    ![t].error = RefreshError(failure)]
        /\ UNCHANGED <<now, token, expires_at>>
        /\ RaceFrame

\* Line 85: `self._token = token_data["access_token"]`
ThreadStoreToken ==
    \E t \in Threads :
        /\ ThreadAt(t, "store token")
        /\ token' = threads[t].granted
        /\ threads' = Moved(t, "store expiry")
        /\ UNCHANGED <<now, expires_at, grants>>
        /\ RaceFrame

\* Line 87: `self._expires_at = time.time() + token_data["expires_in"] * 0.9`
ThreadStoreExpiry ==
    \E t \in Threads :
        /\ ThreadAt(t, "store expiry")
        /\ IF threads[t].granted.expires_in = 0
           THEN /\ threads' = [threads EXCEPT ![t].pc = "done",
                                              ![t].error = RefreshError("no expires_in")]
                /\ UNCHANGED expires_at
           ELSE /\ expires_at' = ExpiresAt(now, threads[t].granted.expires_in)
                /\ threads' = Moved(t, "return")
        /\ UNCHANGED <<now, token, grants>>
        /\ RaceFrame

\* Line 57: `return self._token`
ThreadReturn ==
    \E t \in Threads :
        /\ ThreadAt(t, "return")
        /\ threads' = [threads EXCEPT ![t].pc = "done", ![t].returned = token.serial]
        /\ UNCHANGED <<now, token, expires_at, grants>>
        /\ RaceFrame

\* A minute passes while the threads run.
RaceTick ==
    /\ op = RaceOp
    /\ now < Epoch + MaxRaceClock
    /\ now' = now + 1
    /\ UNCHANGED <<threads, token, expires_at, grants>>
    /\ RaceFrame

\* A new instance, and two threads that enter get_token.
InitRace ==
    /\ op = RaceOp
    /\ threads = <<StartThread, StartThread>>
    /\ now = Epoch
    /\ token = NoToken
    /\ expires_at = 0
    /\ grants = 0
    /\ calls_made = 0
    /\ last_call = NotCalled
    /\ pc = "calls"
    /\ max_attempts = 0
    /\ history_id = None
    /\ script = <<>>
    /\ attempt = 0
    /\ all_messages = <<>>
    /\ chat_state = None
    /\ log = <<>>
    /\ result = Running
    /\ LegacyIdle
    /\ InterfaceIdle
    /\ CreateIdle
    /\ DiagIdle
    /\ SessionIdle
    /\ CacheIdle

(***************************************************************************)
(* The credentials path of PABClient: the class attribute                  *)
(* _cached_credentials_path, the cache file ~/.pab_sdk_cache, and the      *)
(* constructor that reads them. One behaviour is a series of constructor   *)
(* calls and calls of the class methods, over several processes.           *)
(***************************************************************************)
CacheOp == "PABClient"

\* Paths of credentials files that exist and hold a binding, and one path of
\* a file that does not exist.
GoodPaths == {"p1", "p2"}
Paths == GoodPaths \cup {"missing"}

\* What the cache file can hold: nothing (no file), text that is not JSON, or
\* {"credentials_path": path}.
Corrupt == "corrupt"

\* PABClient._get_cached_credentials_path: the class attribute if it is set,
\* else the credentials_path of the cache file, None without a readable file.
GetCachedCredentialsPath(attribute, file) ==
    IF attribute # None THEN attribute
    ELSE IF file = None \/ file = Corrupt THEN None
    ELSE file

\* PABClient._load_credentials_from_file: ValueError unless the file exists.
LoadFromFile(source, path) ==
    [from |-> source, path |-> path,
     error |-> IF path \in GoodPaths THEN None ELSE "ValueError"]

CacheFrame ==
    UNCHANGED <<op, pc, max_attempts, history_id, script, attempt, all_messages,
                chat_state, log, result, legacyVars, interfaceVars, createVars,
                tokenVars, raceVars, diagVars, sessionVars>>

\* PABClient(credentials_path): lines 167-168 store the path in the class
\* attribute, line 174 loads the file. Nothing writes the cache file.
ConstructWithPath ==
    /\ op = CacheOp
    /\ \E path \in Paths :
         /\ cached_credentials_path' = path
         /\ loaded' = LoadFromFile("argument", path)
         /\ IF path \in GoodPaths
            THEN explicit_path' = path /\ restarted' = FALSE
            ELSE UNCHANGED <<explicit_path, restarted>>
    /\ UNCHANGED cache_file
    /\ CacheFrame

\* PABClient(): the cached path if there is one, else the environment, else
\* the prompt, whose answer is stored in the class attribute and loaded.
ConstructDefault ==
    /\ op = CacheOp
    /\ LET path == GetCachedCredentialsPath(cached_credentials_path, cache_file)
       IN  IF path # None
           THEN /\ loaded' = LoadFromFile("cache", path)
                /\ UNCHANGED cached_credentials_path
           ELSE \/ /\ loaded' = [from |-> "environment", path |-> None, error |-> None]
                   /\ UNCHANGED cached_credentials_path
                \/ \E answer \in GoodPaths :
                     /\ cached_credentials_path' = answer
                     /\ loaded' = LoadFromFile("prompt", answer)
                \/ /\ loaded' = [from |-> "prompt", path |-> None, error |-> "ValueError"]
                   /\ UNCHANGED cached_credentials_path
    /\ UNCHANGED <<cache_file, explicit_path, restarted>>
    /\ CacheFrame

\* PABClient._cache_credentials_path(path): the class attribute, and the cache
\* file unless writing it fails. No code of the client calls it.
CacheCredentialsPath ==
    /\ op = CacheOp
    /\ \E path \in GoodPaths :
         /\ cached_credentials_path' = path
         /\ \/ cache_file' = path
            \/ UNCHANGED cache_file
         /\ explicit_path' = None
    /\ loaded' = NotLoaded
    /\ UNCHANGED restarted
    /\ CacheFrame

\* PABClient.clear_cache(): the class attribute, and the cache file unless
\* removing it fails.
ClearCache ==
    /\ op = CacheOp
    /\ cached_credentials_path' = None
    /\ \/ cache_file' = None
       \/ cache_file # None /\ UNCHANGED cache_file
    /\ explicit_path' = None
    /\ loaded' = NotLoaded
    /\ UNCHANGED restarted
    /\ CacheFrame

\* The process ends and a new one starts: the class attribute is None again,
\* the cache file is what it was.
NewProcess ==
    /\ op = CacheOp
    /\ cached_credentials_path' = None
    /\ loaded' = NotLoaded
    /\ restarted' = (explicit_path # None)
    /\ UNCHANGED <<cache_file, explicit_path>>
    /\ CacheFrame

\* A first process, with no cache file or with one that cannot be read.
InitCache ==
    /\ op = CacheOp
    /\ cached_credentials_path = None
    /\ cache_file \in {None, Corrupt}
    /\ loaded = NotLoaded
    /\ explicit_path = None
    /\ restarted = FALSE
    /\ pc = "calls"
    /\ max_attempts = 0
    /\ history_id = None
    /\ script = <<>>
    /\ attempt = 0
    /\ all_messages = <<>>
    /\ chat_state = None
    /\ log = <<>>
    /\ result = Running
    /\ LegacyIdle
    /\ InterfaceIdle
    /\ CreateIdle
    /\ TokenIdle
    /\ RaceIdle
    /\ DiagIdle
    /\ SessionIdle

(***************************************************************************)
(* A session of one PABClient: calls that bind the client to an agent      *)
(* (create_agent, get_agent) and calls that work on the "document" tool    *)
(* (add_tool, add_document, list_documents), in any order. Each action is  *)
(* one call, reduced to the request it addresses and to what it does to    *)
(* self._agent_id, self._chat_id and self._tools; the log holds, for each  *)
(* request, the agent and the tool of its URL and the agent the tool id    *)
(* was stored under.                                                       *)
(***************************************************************************)
MaxSession == 5         \* a session sends at most MaxSession requests

SessionOp == "PABClient session"

SessionFrame ==
    UNCHANGED <<op, pc, max_attempts, history_id, script, attempt, all_messages,
                chat_state, legacyVars, outer_retry_count, createVars, tokenVars,
                raceVars, diagVars, interfaces, cacheVars>>

MaySend ==
    /\ op = SessionOp
    /\ Len(log) < MaxSession

\* PABClient.get_agent(target): `self._agent_id = agent_id` comes before the
\* GET; with the agent found, initialize() stores the new chat.
SessionGetAgent ==
    /\ MaySend
    /\ \E target \in Agents :
         /\ agent_id' = target
         /\ log' = Append(log, <<"GET agent", target, 0, None>>)
         /\ \/ chat_id' = "c2" /\ result' = Return("AgentInterface")
            \/ result' = Raise(StatusError("404")) /\ UNCHANGED chat_id
    /\ UNCHANGED <<registry, registry_scope, server>>
    /\ SessionFrame

\* PABClient.create_agent: `self._agent_id = response.json()["ID"]` once a POST
\* has succeeded; initialize() stores the new chat.
SessionCreateAgent ==
    /\ MaySend
    /\ log' = Append(log, <<"POST agent", None, 0, None>>)
    /\ \/ \E created \in Agents \ {agent_id} :
            /\ agent_id' = created
            /\ chat_id' = "c2"
            /\ result' = Return("AgentInterface")
       \/ /\ result' = Raise(StatusError("500"))
          /\ UNCHANGED <<agent_id, chat_id>>
    /\ UNCHANGED <<registry, registry_scope, server>>
    /\ SessionFrame

\* PABClient.add_tool("document", ...): the POST is addressed to
\* self._agent_id and `self._tools[name] = tool_id` stores its identifier.
SessionAddTool ==
    /\ MaySend
    /\ IF agent_id = None
       THEN /\ result' = Raise("ValueError: Agent not initialized")
            /\ UNCHANGED <<log, registry, registry_scope, server>>
       ELSE /\ log' = Append(log, <<"POST tool", agent_id, 0, None>>)
            /\ \/ /\ server' = Append(server, [ID |-> Len(server) + 1,
                                                 name |-> "document",
                                                 agent |-> agent_id])
                  /\ registry' = Put(registry, "document", Len(server) + 1)
                  /\ registry_scope' = Put(registry_scope, "document", agent_id)
                  /\ result' = Return(Len(server) + 1)
               \/ /\ result' = Raise(StatusError("500"))
                  /\ UNCHANGED <<registry, registry_scope, server>>
    /\ UNCHANGED <<agent_id, chat_id>>
    /\ SessionFrame

\* The tools the server lists for an agent, and the last of them: list_tools
\* stores every listed tool under its name, so the last one stays.
ToolsOf(agent) == { i \in 1..Len(server) : server[i].agent = agent }

\* Mutant of LastTool: the first listed tool of the name stays.
FirstTool(tools) == CHOOSE i \in tools : \A j \in tools : i <= j

LastTool(tools) == CHOOSE i \in tools : \A j \in tools : j <= i

\* AgentInterface.list_tools: the GET is addressed to self._agent_id and
\* `self.pab_client._tools[tool["name"]] = tool["ID"]` stores what it lists;
\* an entry the listing does not name stays as it was.
SessionListTools ==
    /\ MaySend
    /\ IF agent_id = None
       THEN /\ result' = Raise("ValueError: Agent not initialized")
            /\ UNCHANGED <<log, registry, registry_scope>>
       ELSE /\ log' = Append(log, <<"GET tools", agent_id, 0, None>>)
            /\ \/ /\ result' = Return("tools")
                  /\ IF ToolsOf(agent_id) = {}
                     THEN UNCHANGED <<registry, registry_scope>>
                     ELSE /\ registry' = Put(registry, "document",
                                            LastTool(ToolsOf(agent_id)))
                          /\ registry_scope' = Put(registry_scope, "document",
                                                  agent_id)
               \/ /\ result' = Raise(StatusError("500"))
                  /\ UNCHANGED <<registry, registry_scope>>
    /\ UNCHANGED <<agent_id, chat_id, server>>
    /\ SessionFrame

\* The requests of the document operations: the tool comes from
\* `self._tools["document"]`, the agent from self._agent_id.
DocumentRequest(method) ==
    <<method, agent_id, registry["document"], registry_scope["document"]>>

\* PABClient.add_document: ValueError without the entry, else the upload.
SessionAddDocument ==
    /\ MaySend
    /\ IF "document" \notin DOMAIN registry
       THEN /\ result' = Raise("ValueError: Document tool not found")
            /\ UNCHANGED log
       ELSE /\ log' = Append(log, DocumentRequest("POST resources"))
            /\ \/ result' = Return("resource")
               \/ result' = Raise(StatusError("404"))
    /\ UNCHANGED <<agent_id, chat_id, registry, registry_scope, server>>
    /\ SessionFrame

\* AgentInterface.add_document: `if "document" not in self.pab_client._tools`
\* decides whether add_tool runs first; the upload of PABClient.add_document
\* then takes the tool from the registry. The log holds each request once,
\* not its repetitions after 503.
SessionInterfaceAddDocument ==
    /\ MaySend
    /\ agent_id # None
    /\ IF "document" \in DOMAIN registry
       THEN /\ log' = Append(log, DocumentRequest("POST resources"))
            /\ \/ result' = Return("resource")
               \/ result' = Raise(StatusError("404"))
            /\ UNCHANGED <<registry, registry_scope, server>>
       ELSE \/ /\ server' = Append(server, [ID |-> Len(server) + 1,
                                             name |-> "document",
                                             agent |-> agent_id])
               /\ registry' = Put(registry, "document", Len(server) + 1)
               /\ registry_scope' = Put(registry_scope, "document", agent_id)
               /\ log' = log \o <<<<"POST tool", agent_id, 0, None>>,
                                  <<"POST resources", agent_id, Len(server) + 1,
                                    agent_id>>>>
               /\ result' = Return("resource")
            \/ /\ log' = Append(log, <<"POST tool", agent_id, 0, None>>)
               /\ result' = Raise(StatusError("500"))
               /\ UNCHANGED <<registry, registry_scope, server>>
    /\ UNCHANGED <<agent_id, chat_id>>
    /\ SessionFrame

\* AgentInterface.list_documents: [] without the entry, else the listing.
SessionListDocuments ==
    /\ MaySend
    /\ IF "document" \notin DOMAIN registry
       THEN /\ result' = Return("[]")
            /\ UNCHANGED log
       ELSE /\ log' = Append(log, DocumentRequest("GET resources"))
            /\ \/ result' = Return("resources")
               \/ result' = Raise(StatusError("404"))
    /\ UNCHANGED <<agent_id, chat_id, registry, registry_scope, server>>
    /\ SessionFrame

\* A new client: no agent, no chat, an empty registry.
InitSession ==
    /\ op = SessionOp
    /\ pc = "calls"
    /\ max_attempts = 0
    /\ history_id = None
    /\ script = <<>>
    /\ attempt = 0
    /\ all_messages = <<>>
    /\ chat_state = None
    /\ log = <<>>
    /\ result = Running
    /\ LegacyIdle
    /\ InterfaceIdle
    /\ CreateIdle
    /\ TokenIdle
    /\ ExtraIdle

(***************************************************************************)
(* The AgentInterface objects of one PABClient that is bound to an agent:  *)
(* each is built with or without a chat_id (by create_agent,               *)
(* get_interface, get_agent or run) and initialized, and messages are sent *)
(* through those that were returned. The server keeps the chats of the     *)
(* agent; the log holds the requests: <<"GET chat", chat, answer>>,        *)
(* <<"POST chat", None, answer>> and <<"POST message", chat, interface>>.  *)
(***************************************************************************)
MaxChatRequests == 5    \* the interfaces send at most MaxChatRequests requests

InterfaceOp == "AgentInterface"

\* A chat identifier no chat of the server has (any more).
GoneChat == "gone"

ChatIds == { server[i].ID : i \in 1..Len(server) }

\* The identifier the server gives to the n-th chat of the agent.
NewChatId(n) == <<"c1", "c2", "c3", "c4", "c5", "c6", "c7", "c8">>[n]

\* What the GET of the supplied chat can give: the chat when the server has it,
\* 404 when it has not, or a failure of the request.
VerifyAnswers(supplied) ==
    (IF supplied \in ChatIds THEN {"ok"} ELSE {"404"}) \cup {"500", "ConnectError"}

\* Mutant of VerifyBranch: every failure of the verification creates a chat.
VerifyBranchAnyFailureCreates(answer) ==
    IF answer = "ok" THEN "use" ELSE "create"

\* initialize, the chat_id supplied: raise_for_status() passing uses the chat,
\* `except httpx.HTTPStatusError` with status 404 creates one, everything else
\* is raised again or was never caught.
VerifyBranch(answer) ==
    IF answer = "ok" THEN "use"
    ELSE IF answer = "404" THEN "create"
    ELSE "raise"

VerifyError(answer) ==
    IF answer \in HttpErrors THEN StatusError(answer) ELSE answer

\* PABClient._create_chat: one POST, and after any exception a second POST
\* whose failure is raised.
CreateChatRequests(first, second) ==
    IF first = "ok" THEN <<<<"POST chat", None, first>>>>
    ELSE <<<<"POST chat", None, first>>, <<"POST chat", None, second>>>>

CreateChatSucceeds(first, second) == first = "ok" \/ second = "ok"

MayRequest ==
    /\ op = InterfaceOp
    /\ Len(log) < MaxChatRequests

InterfaceFrame ==
    UNCHANGED <<op, pc, max_attempts, history_id, script, attempt, all_messages,
                chat_state, legacyVars, outer_retry_count, registry, createVars,
                tokenVars, raceVars, diagVars, agent_id, registry_scope, cacheVars>>

\* The interface initialize() returns, and the chat it left in self._chat_id.
Selected(supplied, chat) ==
    /\ chat_id' = chat
    /\ interfaces' = Append(interfaces, [supplied |-> supplied, selected |-> chat])
    /\ result' = Return("AgentInterface")

\* `self.pab_client._chat_id = await self.pab_client._create_chat(...)`: the
\* assignment happens only when _create_chat returned.
CreateChat(supplied, sent, kept) ==
    \E first, second \in {"ok", "500"} :
       /\ log' = sent \o CreateChatRequests(first, second)
       /\ IF CreateChatSucceeds(first, second)
          THEN /\ server' = Append(server, [ID |-> NewChatId(Len(server) + 1),
                                              name |-> "Chat Session"])
               /\ Selected(supplied, NewChatId(Len(server) + 1))
          ELSE /\ result' = Raise(StatusError(second))
               /\ chat_id' = kept
               /\ UNCHANGED <<server, interfaces>>

\* AgentInterface(self, client, chat_id) and initialize(), without a chat_id.
InitializeNew ==
    /\ MayRequest
    /\ CreateChat(None, log, chat_id)
    /\ InterfaceFrame

\* AgentInterface(self, client, chat_id) and initialize(), with a chat_id:
\* `self.pab_client._chat_id = self.chat_id` comes before the GET.
InitializeSupplied ==
    /\ MayRequest
    /\ \E supplied \in ChatIds \cup {GoneChat} :
         \E answer \in VerifyAnswers(supplied) :
            LET sent == Append(log, <<"GET chat", supplied, answer>>)
            IN  IF VerifyBranch(answer) = "use"
                THEN /\ log' = sent
                     /\ Selected(supplied, supplied)
                     /\ UNCHANGED server
                ELSE IF VerifyBranch(answer) = "create"
                THEN CreateChat(supplied, sent, supplied)
                ELSE /\ log' = sent
                     /\ result' = Raise(VerifyError(answer))
                     /\ chat_id' = supplied
                     /\ UNCHANGED <<server, interfaces>>
    /\ InterfaceFrame

\* __call__, continue_message and cancel of interface i: the test of the two
\* identifiers of the client, then the POST to
\* /Agents({self.pab_client._agent_id})/chats({self.pab_client._chat_id})/...
InterfaceSend ==
    /\ MayRequest
    /\ \E i \in 1..Len(interfaces) :
         IF agent_id = None \/ chat_id = None
         THEN /\ result' = Raise("ValueError: Agent or chat not initialized")
              /\ UNCHANGED log
         ELSE /\ log' = Append(log, <<"POST message", chat_id, i>>)
              /\ \/ result' = Return("sent")
                 \/ result' = Raise(StatusError("500"))
    /\ UNCHANGED <<chat_id, interfaces, server>>
    /\ InterfaceFrame

\* A client bound to agent a1 that has built no interface yet; the agent has
\* no chat, or one chat of an earlier run.
InitInterfaces ==
    /\ op = InterfaceOp
    /\ pc = "calls"
    /\ agent_id = "a1"
    /\ chat_id = None
    /\ registry_scope = EmptyDict
    /\ interfaces = <<>>
    /\ server \in {<<>>, <<[ID |-> NewChatId(1), name |-> "Chat Session"]>>}
    /\ outer_retry_count = 0
    /\ registry = EmptyDict
    /\ max_attempts = 0
    /\ history_id = None
    /\ script = <<>>
    /\ attempt = 0
    /\ all_messages = <<>>
    /\ chat_state = None
    /\ log = <<>>
    /\ result = Running
    /\ LegacyIdle
    /\ CreateIdle
    /\ TokenIdle
    /\ RaceIdle
    /\ DiagIdle
    /\ CacheIdle

(***************************************************************************)
(* The documents of one agent: PABClient.add_document encodes the content  *)
(* (UTF-8, then base64) into the "data" of a new resource, and             *)
(* AgentInterface.get_document_content finds the resource by name and      *)
(* decodes its "data". A content is a sequence of code points, the encoded *)
(* data a sequence of base64 digits 0..63 and padding. The server stores   *)
(* the data as it was uploaded. Of the retry loops of both calls only the  *)
(* outcome is kept: the response, or the exception that ended them.        *)
(***************************************************************************)
MaxContent == 2         \* a content has at most MaxContent characters
MaxDocumentCalls == 3   \* at most MaxDocumentCalls calls are made

DocumentOp == "documents"

\* "a" (one byte in UTF-8) and "e" with acute accent (two bytes).
Chars == {97, 233}
Contents == UNION { [1..n -> Chars] : n \in 0..MaxContent }
DocNames == {"d1", "d2"}

\* The "=" of base64.
Pad == 64

\* str.encode('utf-8') for code points below 2048.
RECURSIVE Utf8Encode(_)
Utf8Encode(chars) ==
    IF chars = <<>> THEN <<>>
    ELSE LET c == Head(chars)
         IN  (IF c < 128 THEN <<c>> ELSE <<192 + (c \div 64), 128 + (c % 64)>>)
                \o Utf8Encode(Tail(chars))

\* bytes.decode('utf-8') of what Utf8Encode gives.
RECURSIVE Utf8Decode(_)
Utf8Decode(bytes) ==
    IF bytes = <<>> THEN <<>>
    ELSE IF bytes[1] < 128 THEN <<bytes[1]>> \o Utf8Decode(Tail(bytes))
    ELSE <<(bytes[1] - 192) * 64 + (bytes[2] - 128)>> \o Utf8Decode(Tail(Tail(bytes)))

\* base64.b64encode: three bytes give four digits, a rest of one or two bytes
\* is padded.
RECURSIVE B64Encode(_)
B64Encode(bytes) ==
    IF Len(bytes) = 0 THEN <<>>
    ELSE IF Len(bytes) = 1
    THEN <<bytes[1] \div 4, (bytes[1] % 4) * 16, Pad, Pad>>
    ELSE IF Len(bytes) = 2
    THEN <<bytes[1] \div 4, (bytes[1] % 4) * 16 + (bytes[2] \div 16),
           (bytes[2] % 16) * 4, Pad>>
    ELSE <<bytes[1] \div 4, (bytes[1] % 4) * 16 + (bytes[2] \div 16),
           (bytes[2] % 16) * 4 + (bytes[3] \div 64), bytes[3] % 64>>
            \o B64Encode(SubSeq(bytes, 4, Len(bytes)))

\* base64.b64decode of what B64Encode gives.
RECURSIVE B64Decode(_)
B64Decode(digits) ==
    IF Len(digits) = 0 THEN <<>>
    ELSE LET first == digits[1] * 4 + (digits[2] \div 16)
             second == (digits[2] % 16) * 16 + (digits[3] \div 4)
             third == (digits[3] % 4) * 64 + digits[4]
         IN  IF digits[3] = Pad THEN <<first>>
             ELSE IF digits[4] = Pad THEN <<first, second>>
             ELSE <<first, second, third>> \o B64Decode(SubSeq(digits, 5, Len(digits)))

\* What get_document_content returns: None, or a string.
NoContent == [found |-> FALSE, text |-> <<>>]
Content(text) == [found |-> TRUE, text |-> text]

\* `data = resource_data.get("data")`, `if not data: return None`, else
\* `base64.b64decode(data).decode('utf-8')`.
DecodeData(data) ==
    IF data = <<>> THEN NoContent ELSE Content(Utf8Decode(B64Decode(data)))

\* `for resource in resources: if resource.get("name") == doc_name`: the
\* position of the first resource of that name, 0 without one.
FindDocument(resources, name) ==
    IF \E i \in 1..Len(resources) : resources[i].name = name
    THEN CHOOSE i \in 1..Len(resources) :
            /\ resources[i].name = name
            /\ \A j \in 1..(i - 1) : resources[j].name # name
    ELSE 0

MayCallDocuments ==
    /\ op = DocumentOp
    /\ Len(log) < MaxDocumentCalls

DocumentFrame ==
    UNCHANGED <<op, pc, max_attempts, history_id, script, attempt, all_messages,
                chat_state, legacyVars, outer_retry_count, registry, createVars,
                tokenVars, extraVars>>

\* AgentInterface.add_document on a client that has the document tool: the
\* upload of PABClient.add_document with `"data": encoded_content`, stored by
\* the server, or the exception of the upload.
StoreDocument ==
    /\ MayCallDocuments
    /\ \E name \in DocNames, content \in Contents :
         \/ /\ server' = Append(server, [ID |-> Len(server) + 1, name |-> name,
                                         data |-> B64Encode(Utf8Encode(content))])
            /\ log' = Append(log, <<"add_document", name, "ok", content>>)
            /\ result' = Return(Len(server) + 1)
         \/ /\ log' = Append(log, <<"add_document", name, "500", content>>)
            /\ result' = Raise(StatusError("500"))
            /\ UNCHANGED server
    /\ DocumentFrame

\* AgentInterface.get_document_content: the listing of the resources, the
\* search by name, the GET of the resource found and the decoding of its data.
GetDocumentContent ==
    /\ MayCallDocuments
    /\ \E name \in DocNames, answer \in {"ok", "500"} :
         LET found == FindDocument(server, name)
         IN  /\ log' = Append(log, <<"get_document_content", name, answer, <<>>>>)
             /\ result' = IF answer # "ok" THEN Raise(StatusError(answer))
                          ELSE IF found = 0 THEN Return(NoContent)
                          ELSE Return(DecodeData(server[found].data))
    /\ UNCHANGED server
    /\ DocumentFrame

\* An agent with a document tool the client knows and no document in it.
InitDocumentStore ==
    /\ op = DocumentOp
    /\ pc = "calls"
    /\ registry = DocumentRegistered
    /\ server = <<>>
    /\ outer_retry_count = 0
    /\ max_attempts = 0
    /\ history_id = None
    /\ script = <<>>
    /\ attempt = 0
    /\ all_messages = <<>>
    /\ chat_state = None
    /\ log = <<>>
    /\ result = Running
    /\ LegacyIdle
    /\ CreateIdle
    /\ TokenIdle
    /\ ExtraIdle

(***************************************************************************)
(* The specifications.                                                     *)
(***************************************************************************)
\* The calls of pab_sdk.client.AgentBuilderClient.
InitSdk == InitReady \/ InitMessage \/ InitSendMessage
NextSdk ==
    \/ SendMessage
    \/ WaitForReadyIteration
    \/ WaitForReadyExhausted
    \/ WaitForMessageIteration
    \/ WaitForMessageExhausted

\* The calls of pab_client.PABClient and AgentInterface.
InitLegacy ==
    InitLegacyWait \/ InitGetAgent \/ InitAddDocument \/ InitDocuments \/ InitReply
NextLegacy ==
    \/ GetAgentVerify
    \/ GetAgentWaitFetch
    \/ GetAgentInitialize
    \/ WaitForEntityFetch
    \/ WaitForAgentFetch
    \/ LoopSleep
    \/ AddDocumentUpload
    \/ AddDocumentWaitFetch
    \/ InterfaceAddTool
    \/ InterfaceToolWaitFetch
    \/ InterfaceAddDocumentReturned
    \/ ListDocuments
    \/ RemoveDocument
    \/ CallSend
    \/ CallPoll
    \/ ContinueSend
    \/ ContinuePoll

\* The cancel calls of both clients.
InitCancel == InitCancelChat \/ InitInterfaceCancel
NextCancel == CancelChat \/ InterfaceCancel

Init == InitSdk \/ InitLegacy \/ InitCancel
Next == NextSdk \/ NextLegacy \/ NextCancel
Spec == Init /\ [][Next]_vars

\* The create calls.
NextCreate ==
    \/ CreateList
    \/ CreatePatch
    \/ CreatePost
    \/ CreateGet
    \/ AddToolPost
    \/ CreateAgentFind
    \/ CreateAgentUpdate
    \/ CreateAgentPost
    \/ CreateReadyWait
    \/ CreateAgentInitialize

CreateSpec == InitCreate /\ [][NextCreate]_vars

\* The token calls.
NextToken == GetToken \/ LegacyGetToken \/ Tick
TokenSpec == InitToken /\ [][NextToken]_vars

\* The operations of one AgentBuilderClient, one after the other, while the
\* clock runs.
NextClient == MakeRequest \/ Tick
ClientSpec == InitClient /\ [][NextClient]_vars

\* Two threads in get_token.
NextRace ==
    \/ ThreadCheck
    \/ ThreadRequest
    \/ ThreadStoreToken
    \/ ThreadStoreExpiry
    \/ ThreadReturn
    \/ RaceTick
RaceSpec == InitRace /\ [][NextRace]_vars

\* The constructor of PABClient and the cache of the credentials path.
NextCache ==
    \/ ConstructWithPath
    \/ ConstructDefault
    \/ CacheCredentialsPath
    \/ ClearCache
    \/ NewProcess
CacheSpec == InitCache /\ [][NextCache]_vars

\* The interfaces of one PABClient: built, initialized and used in any order.
NextInterfaces == InitializeNew \/ InitializeSupplied \/ InterfaceSend
InterfaceSpec == InitInterfaces /\ [][NextInterfaces]_vars

\* Documents added to one agent and read back, in any order.
NextDocumentStore == StoreDocument \/ GetDocumentContent
DocumentSpec == InitDocumentStore /\ [][NextDocumentStore]_vars

\* The calls of one PABClient, one after the other.
NextSession ==
    \/ SessionGetAgent
    \/ SessionCreateAgent
    \/ SessionAddTool
    \/ SessionListTools
    \/ SessionAddDocument
    \/ SessionInterfaceAddDocument
    \/ SessionListDocuments
SessionSpec == InitSession /\ [][NextSession]_vars

\* The calls of pab_client under the scheduling of the event loop: a coroutine
\* that can take its next step takes it.
LegacyFairSpec == InitLegacy /\ [][NextLegacy]_vars /\ WF_vars(NextLegacy)

(***************************************************************************)
(* Reading the log.                                                        *)
(***************************************************************************)
Events(name) == { i \in 1..Len(log) : log[i][1] = name }
Count(name) == Cardinality(Events(name))
Matches(messages, hid) == { i \in 1..Len(messages) : PreviousId(messages[i]) = hid }
Least(S) == CHOOSE i \in S : \A j \in S : i <= j
Timeout == Raise("TimeoutError")
NotReady == Raise("ResourceNotReadyError")

(***************************************************************************)
(* C1. wait_for_tool_ready / wait_for_resource_ready, for every sequence   *)
(* of states the server reports and every max_attempts: the call returns   *)
(* the (ready) entity iff one of the first max_attempts fetches observes   *)
(* ready and no earlier fetch observed error; it raises                    *)
(* ResourceNotReadyError at the first fetch that observes error; and the   *)
(* terminal observation is the last fetch of the call.                     *)
(***************************************************************************)
StatesOnly(sc) == \A i \in 1..Len(sc) : sc[i] # "ApiError"
ReadyAt(sc, m) ==
    { i \in 1..m : sc[i] = "ready" /\ \A j \in 1..(i - 1) : sc[j] \notin {"ready", "error"} }
ErrorAt(sc, m) ==
    { i \in 1..m : sc[i] = "error" /\ \A j \in 1..(i - 1) : sc[j] \notin {"ready", "error"} }

C1_ReadinessContract ==
    (op \in ReadyOps /\ pc = "done" /\ StatesOnly(script)) =>
        /\ result.kind = "return" <=>
              \E i \in 1..max_attempts :
                  script[i] = "ready" /\ \A j \in 1..(i - 1) : script[j] # "error"
        /\ result.kind = "return" =>
              result.value = "ready" /\ Count("GET") = Least(ReadyAt(script, max_attempts))
        /\ result = NotReady <=> ErrorAt(script, max_attempts) # {}
        /\ result = NotReady => Count("GET") = Least(ErrorAt(script, max_attempts))

C1_Witness ==
    /\ op = "wait_for_resource_ready"
    /\ pc = "done"
    /\ result = Return("ready")
    /\ Count("GET") = 2
    /\ script[1] = None
    /\ script[3] = "error"

(***************************************************************************)
(* C2. Against a source that never reaches a terminal state (for replies:  *)
(* never a matching node, never a failed chat), each bounded poller        *)
(* performs exactly max_attempts fetch rounds, for every max_attempts >=   *)
(* 0, and then raises TimeoutError.                                        *)
(***************************************************************************)
NeverTerminal ==
    IF op \in ReadyOps
    THEN \A i \in 1..max_attempts : script[i] \in {"processing", None}
    ELSE \A i \in 1..Len(log) :
            log[i] \notin { <<"list_messages", "reply">>, <<"list_messages", "ApiError">>,
                            <<"get_chat", "failed">>, <<"get_chat", "ApiError">> }

Rounds == IF op \in ReadyOps THEN Count("GET") ELSE Count("list_messages")

C2_TimeoutBoundary ==
    (op \in ReadyOps \cup {"wait_for_message_response"} /\ NeverTerminal) =>
        /\ Rounds <= max_attempts
        /\ pc = "done" =>
              /\ result = Timeout
              /\ Rounds = max_attempts
              /\ op = "wait_for_message_response" => Count("get_chat") = max_attempts

C2_Witness ==
    /\ op = "wait_for_message_response"
    /\ max_attempts = 3
    /\ result = Timeout
    /\ Count("list_messages") = 3
    /\ Len(all_messages) = 2

(***************************************************************************)
(* C3. Every polling loop of PABClient and AgentInterface is bounded: with *)
(* a server that keeps answering with a non-terminal state (or with no     *)
(* reply node and a chat that has not failed) the call ends.               *)
(***************************************************************************)
LegacyLoopOps ==
    {"_wait_for_resource_ready", "_wait_for_tool_ready", "_wait_for_agent_ready",
     "__call__", "continue_message"}

C3_LegacyLoopsEnd == <>(op \in LegacyLoopOps => pc = "done")

(***************************************************************************)
(* C4. Reply correlation in wait_for_message_response: when the listing of *)
(* a poll holds exactly one node whose previous equals history_id, among   *)
(* any other nodes and at any position, the call returns that node; and    *)
(* the node a call returns always points back to the history_id waited on, *)
(* never to another outstanding one.                                       *)
(***************************************************************************)
C4_ReplyCorrelation ==
    op = "wait_for_message_response" =>
        /\ Cardinality(Matches(all_messages, history_id)) = 1 =>
              result = Return(all_messages[Least(Matches(all_messages, history_id))].ID)
        /\ result.kind = "return" =>
              /\ PreviousId(NodeOf(result.value)) = history_id
              /\ \E i \in 1..Len(all_messages) : all_messages[i].ID = result.value

C4_Witness ==
    /\ op = "wait_for_message_response"
    /\ history_id = "h1"
    /\ Len(all_messages) = 3
    /\ all_messages[1].ID = "pong2"
    /\ all_messages[2].ID = "ping"
    /\ all_messages[3].ID = "pong1"
    /\ result = Return("pong1")

(***************************************************************************)
(* C5. A poll round of wait_for_message_response that finds no reply node  *)
(* and observes the chat in state failed raises ApiError in that round,    *)
(* never TimeoutError, the last permitted round included.                  *)
(***************************************************************************)
C5_FailedChatRaisesApiError ==
    op = "wait_for_message_response" =>
        \A i \in 1..Len(log) :
            log[i] = <<"get_chat", "failed">> =>
                /\ i = Len(log)
                /\ log[i - 1] = <<"list_messages", "no reply">>
                /\ pc = "done"
                /\ result = Raise(ChatFailed)

C5_Witness ==
    /\ op = "wait_for_message_response"
    /\ max_attempts = 3
    /\ Count("get_chat") = 3
    /\ log[Len(log)] = <<"get_chat", "failed">>
    /\ result = Raise(ChatFailed)

(***************************************************************************)
(* C6. As claimed: in every poll round of wait_for_message_response that   *)
(* runs while the chat's state on the server is failed, the call aborts    *)
(* with ApiError in that round, whether or not the listing of the round    *)
(* holds a node whose previous equals history_id.                          *)
(***************************************************************************)
RoundRan == op = "wait_for_message_response" /\ log # <<>>

C7_AbsenceKeepsPolling ==
    op = "wait_for_message_response" =>
        /\ pc = "poll" =>
              /\ result = Running
              /\ Count("list_messages") = attempt
              /\ \A i \in Events("list_messages") : log[i][2] = "no reply"
        /\ result = Timeout => Count("list_messages") = max_attempts
        /\ result.kind = "return" =>
              LET k == Count("list_messages")
              IN  /\ k <= max_attempts
                  /\ Count("get_chat") = k - 1
                  /\ log[Len(log)] = <<"list_messages", "reply">>
                  /\ \A i \in Events("list_messages") : i < Len(log) => log[i][2] = "no reply"
                  /\ Matches(all_messages, history_id) # {}
                  /\ PreviousId(NodeOf(result.value)) = history_id

C7_Witness ==
    /\ op = "wait_for_message_response"
    /\ history_id = "h1"
    /\ log = << <<"list_messages", "no reply">>, <<"get_chat", "processing">>,
                <<"sleep", "interval">>, <<"list_messages", "reply">> >>
    /\ Len(all_messages) = 2
    /\ all_messages[1].ID = "ping"
    /\ all_messages[2].ID = "pong1"
    /\ result = Return("pong1")

(***************************************************************************)
(* C8. AgentInterface.continue_message returns the content of a node whose *)
(* previous is the continuation request (the identifier the server gave to *)
(* this continueMessage call), never a node that was in the history before *)
(* the continuation was submitted.                                         *)
(***************************************************************************)
C8_ContinuationCorrelation ==
    (op = "continue_message" /\ result.kind = "return") =>
        /\ PreviousOf(result.value) = continuation_id
        /\ result.value \notin {"h1", "a1"}

(***************************************************************************)
(* C9. Retry selectivity of PABClient.add_document: an upload POST that    *)
(* fails with an HTTP status other than 503, or with an error that is no   *)
(* HTTP status, ends the call with that error, with no sleep and no POST   *)
(* after it (so a call whose first POST fails so sends exactly one POST);  *)
(* an attempt after the first follows a backoff sleep taken on a 503       *)
(* response.                                                               *)
(***************************************************************************)
PostError(answer) ==
    IF answer = "no ID" THEN "KeyError"
    ELSE IF answer = "ConnectError" THEN "ConnectError"
    ELSE StatusError(answer)

C9_RetrySelectivity ==
    op = "add_document" =>
        /\ \A i \in Events("POST") :
              log[i][2] \notin {"ok", "503"} =>
                  /\ i = Len(log)
                  /\ pc = "done"
                  /\ result = Raise(PostError(log[i][2]))
        /\ \A i \in Events("POST") :
              i > 1 =>
                  /\ log[i - 1][1] = "sleep"
                  /\ log[i - 2] \in { <<"POST", "503">>, <<"GET", "503">> }

C9_Witness ==
    /\ op = "add_document"
    /\ log = << <<"POST", "500">> >>
    /\ retry_count = 1
    /\ pc = "done"
    /\ result = Raise(StatusError("500"))

(***************************************************************************)
(* C10. Backoff boundary of PABClient.add_document (max_retries = 3):      *)
(* against a server that answers every upload POST with 503, the call      *)
(* sends exactly 3 POSTs, sleeps 2 seconds before the second and 4 before  *)
(* the third, does not sleep after the third and re-raises the last 503    *)
(* error; the trailing RuntimeError is never raised.                       *)
(***************************************************************************)
Always503 == Events("GET") = {} /\ \A i \in Events("POST") : log[i][2] = "503"

C10_BackoffBoundary ==
    op = "add_document" =>
        /\ result # Raise("RuntimeError: Failed to add document after maximum retries")
        /\ (pc = "done" /\ Always503) =>
              /\ log = << <<"POST", "503">>, <<"sleep", 2>>, <<"POST", "503">>,
                          <<"sleep", 4>>, <<"POST", "503">> >>
              /\ result = Raise(StatusError("503"))

C10_Witness ==
    /\ op = "add_document"
    /\ pc = "done"
    /\ Always503
    /\ Count("POST") = 3
    /\ result = Raise(StatusError("503"))
(***************************************************************************)
(* C11. Attempt cap of AgentInterface.add_document: with the "document"    *)
(* tool in the registry and a server that answers every upload POST with   *)
(* 503, one call sends at most 3 upload POSTs before the 503 error reaches *)
(* the caller.                                                             *)
(***************************************************************************)
C11_InterfaceAttemptCap ==
    (op = "AgentInterface.add_document" /\ Events("POST tool") = {} /\ Always503) =>
        Count("POST") <= 3

(***************************************************************************)
(* C12. In PABClient.add_document the upload POST is sent again only when  *)
(* the upload POST itself failed with 503: once an upload POST has         *)
(* succeeded, no failure of the readiness fetches that follow (a 503 on a  *)
(* readiness GET included) causes another upload, so one call creates at   *)
(* most one resource on the server.                                        *)
(***************************************************************************)
Uploaded == { i \in Events("POST") : log[i][2] = "ok" }

C12_UploadOnlyAfterPostFailure ==
    op = "add_document" =>
        /\ \A i \in Events("POST") : \A j \in Uploaded : i <= j
        /\ Cardinality(Uploaded) <= 1

(***************************************************************************)
(* Reading the create calls.                                               *)
(***************************************************************************)
Returned(c) == calls[c].result.kind = "return"
Sent(method, c) == \E i \in 1..Len(log) : log[i][1] = method /\ log[i][2] = c
IdsOf(listing, name) == { listing[i].ID : i \in { j \in 1..Len(listing) : listing[j].name = name } }
Holding(listing, name) == Cardinality(IdsOf(listing, name))
CreatedCount == Cardinality({ c \in Callers : calls[c].created # 0 })

\* The collection before the two calls, and as a call found it when it started
\* (the second call of two in sequence starts after the first has ended).
AtStart == SubSeq(server, 1, Len(server) - CreatedCount)
SeenBy(c) ==
    IF c = 1 THEN AtStart
    ELSE SubSeq(server, 1, Len(server) - (IF calls[2].created # 0 THEN 1 ELSE 0))

(***************************************************************************)
(* C13. Sequential idempotence of AgentBuilderClient.create_chat: for any  *)
(* chats on the server, two calls in sequence for the same agent and the   *)
(* same chat name return the same chat identifier, a chat of that name,    *)
(* and the second call sends no creation POST; the server holds exactly    *)
(* one chat of that name afterwards if it held none or one before.         *)
(***************************************************************************)
C13_CreateChatIdempotent ==
    (op = "create_chat" /\ ~concurrent) =>
        /\ Returned(1) => ~Sent("POST", 2)
        /\ (Returned(1) /\ Returned(2)) =>
              /\ calls[1].result = calls[2].result
              /\ calls[2].result.value \in IdsOf(server, arg_name)
              /\ Holding(AtStart, arg_name) <= 1 => Holding(server, arg_name) = 1

C13_Witness ==
    /\ op = "create_chat"
    /\ ~concurrent
    /\ Len(AtStart) = 1
    /\ AtStart[1].name # arg_name
    /\ Sent("POST", 1)
    /\ calls[1].result = Return(2)
    /\ Sent("GET list", 2)
    /\ calls[2].result = Return(2)

(***************************************************************************)
(* C14. Upsert by name in AgentBuilderClient.create_agent: a call that     *)
(* finds an agent of the given name on the server sends a PATCH to the     *)
(* first such agent and no creation POST, and returns that agent's         *)
(* identifier; two calls in sequence with the same name return the same    *)
(* identifier and leave exactly one agent of that name (if the server held *)
(* none or one before).                                                    *)
(***************************************************************************)
C14_CreateAgentUpserts ==
    (op = "create_agent" /\ ~concurrent) =>
        /\ \A c \in Callers :
              IdsOf(SeenBy(c), arg_name) # {} =>
                  /\ ~Sent("POST", c)
                  /\ Returned(c) =>
                        /\ Sent("PATCH", c)
                        /\ calls[c].result.value = Least(IdsOf(SeenBy(c), arg_name))
        /\ (Returned(1) /\ Returned(2)) =>
              /\ calls[1].result = calls[2].result
              /\ Holding(AtStart, arg_name) <= 1 => Holding(server, arg_name) = 1

C14_Witness ==
    /\ op = "create_agent"
    /\ ~concurrent
    /\ AtStart = <<>>
    /\ calls[1].result = Return(1)
    /\ Sent("POST", 1)
    /\ Sent("PATCH", 2)
    /\ ~Sent("POST", 2)
    /\ calls[2].result = Return(1)
    /\ Len(server) = 1

(***************************************************************************)
(* C15. Tool idempotence: two calls in sequence that create a tool with    *)
(* the same name for the same agent (AgentBuilderClient.create_tool,       *)
(* PABClient.add_tool) return the same tool identifier and leave only one  *)
(* tool of that name on the server.                                        *)
(***************************************************************************)
C15_CreateToolIdempotent ==
    (op \in {"create_tool", "add_tool"} /\ Returned(1) /\ Returned(2)) =>
        /\ calls[1].result = calls[2].result
        /\ Holding(AtStart, arg_name) = 0 => Holding(server, arg_name) = 1

(***************************************************************************)
(* C16. PABClient.create_agent is upsert by name: the second of two calls  *)
(* in sequence with the same name argument resolves to the agent the first *)
(* created: same agent identifier, an update and no second creation.       *)
(***************************************************************************)
C16_LegacyCreateAgentUpserts ==
    (op = "PABClient.create_agent" /\ Returned(1) /\ Returned(2)) =>
        /\ calls[1].result = calls[2].result
        /\ ~Sent("POST", 2)

(***************************************************************************)
(* C17. Two AgentBuilderClient instances that run create_chat for the same *)
(* agent and the same chat name, their list and create requests            *)
(* interleaved in any order: the server ends up with at most one chat of   *)
(* that name and both calls return that chat's identifier.                 *)
(***************************************************************************)
C17_ConcurrentCreateChat ==
    (op = "create_chat" /\ concurrent /\ Returned(1) /\ Returned(2)) =>
        /\ Holding(AtStart, arg_name) = 0 => Holding(server, arg_name) <= 1
        /\ calls[1].result = calls[2].result

(***************************************************************************)
(* C18. A registry miss falls back to the server: with no "document" in    *)
(* the registry of the PABClient, a document operation of AgentInterface   *)
(* lists the agent's tools on the server before it concludes that there is *)
(* no document tool (and creates one, or answers that there are no         *)
(* documents); if the server holds a tool named "document", add_document   *)
(* creates no new tool and list_documents returns the resources of that    *)
(* tool.                                                                   *)
(***************************************************************************)
ToolsCreated == { i \in Events("POST tool") : log[i][2] = "ok" }
ToolsAtStart == SubSeq(server, 1, Len(server) - Cardinality(ToolsCreated))
MissAtStart == "document" \notin DOMAIN registry \/ Events("POST tool") # {}
ConcludedNoTool ==
    \/ Events("POST tool") # {}
    \/ pc = "done" /\ log = <<>> /\ result \in {Return("[]"), Return("False")}

C18_RegistryMissFallsBack ==
    (op \in DocumentOps /\ MissAtStart) =>
        /\ ConcludedNoTool => Events("GET tools") # {}
        /\ Holding(ToolsAtStart, "document") > 0 =>
              /\ Events("POST tool") = {}
              /\ (op = "list_documents" /\ pc = "done" /\ result.kind = "return") =>
                    result = Return("resources")

(***************************************************************************)
(* Reading the token calls.                                                *)
(***************************************************************************)
\* At time t the token is at or past 90% of its expires_in.
InsideMargin(tok, t) == 10 * (t - tok.issued_at) >= 9 * tok.expires_in
Called == last_call.kind # "none"

(***************************************************************************)
(* C19. TokenManager.get_token never hands out a token inside its safety   *)
(* margin: a token returned without a grant request was issued less than   *)
(* 90% of its expires_in ago; a call that finds no cached token, or a      *)
(* cached token at or past that point, sends exactly one grant request     *)
(* and, the grant given, returns the token just issued.                    *)
(***************************************************************************)
C19_TokenSafetyMargin ==
    (op = "get_token" /\ Called) =>
        /\ last_call.granted \in {0, 1}
        /\ last_call.granted = 0 =>
              /\ last_call.kind = "return"
              /\ last_call.before.serial # 0
              /\ last_call.returned = last_call.before.serial
              /\ ~InsideMargin(last_call.before, last_call.at)
        /\ (last_call.before.serial = 0 \/ InsideMargin(last_call.before, last_call.at)) =>
              /\ last_call.granted = 1
              /\ last_call.kind = "return" =>
                    /\ last_call.returned = token.serial
                    /\ last_call.returned # last_call.before.serial
                    /\ token.issued_at = last_call.at

C19_Witness ==
    /\ op = "get_token"
    /\ last_call.kind = "return"
    /\ last_call.before.serial = 1
    /\ last_call.before.expires_in = 20
    /\ last_call.at - last_call.before.issued_at = 18
    /\ last_call.granted = 1
    /\ last_call.returned = 2

(***************************************************************************)
(* C20. PABClient._get_token reuses its cached token: after a refresh,     *)
(* every call made before 90% of the token's lifetime has passed returns   *)
(* the cached token and sends no grant request, so the calls within one    *)
(* expiry cycle cause one grant request.                                   *)
(***************************************************************************)
C20_LegacyTokenReuse ==
    (op = "_get_token" /\ Called /\ last_call.before.serial # 0
        /\ ~InsideMargin(last_call.before, last_call.at)) =>
        /\ last_call.granted = 0
        /\ last_call.returned = last_call.before.serial

\* Both threads came back from get_token with a token.
BothReturned ==
    /\ op = RaceOp
    /\ \A t \in Threads :
          /\ threads[t].pc = "done"
          /\ threads[t].error = None

(***************************************************************************)
(* C21. Two threads that call TokenManager.get_token at once on an         *)
(* instance without a valid token are serialized: when both have returned, *)
(* at most one grant request was sent and both hold the same token.        *)
(***************************************************************************)
C21_RefreshSerialized ==
    BothReturned =>
        /\ grants <= 1
        /\ threads[1].returned = threads[2].returned

(***************************************************************************)
(* C22. Every failure of the token grant of TokenManager (no connection,   *)
(* a status that is not 2xx, a body without access_token or without        *)
(* expires_in) leaves get_token as AuthenticationError, after exactly one  *)
(* grant request.                                                          *)
(***************************************************************************)
C22_GrantFailureIsAuthenticationError ==
    (op = "get_token" /\ last_call.kind = "raise") =>
        /\ last_call.error = "AuthenticationError"
        /\ last_call.granted = 1

RaisedBeforeSending ==
    /\ result.kind = "raise"
    /\ \/ op = "AgentInterface.cancel" /\ (agent_id = None \/ chat_id = None)
       \/ op = "cancel_chat" /\ last_call.kind = "raise"

\* A step of a cancel call leaves the state of the client alone, but for a
\* token whose refresh was due.
CancelLeavesState ==
    op \in CancelOps =>
        /\ UNCHANGED <<agent_id, chat_id, registry, registry_scope, server>>
        /\ (token' # token \/ expires_at' # expires_at) =>
              NeedsRefresh(token, expires_at, now)

(***************************************************************************)
(* C24. Cancel is fire-and-forget: cancel_chat and AgentInterface.cancel   *)
(* send exactly one cancel request and nothing else, wait for no state,    *)
(* and leave the state of the client as it was: the agent, the chat, the   *)
(* tool registry, and the cached token unless its refresh was due.         *)
(***************************************************************************)
C24_CancelFireAndForget ==
    /\ [](op \in CancelOps /\ pc = "done" =>
            /\ \A i \in 1..Len(log) : log[i][1] = "POST cancel"
            /\ IF RaisedBeforeSending THEN Len(log) = 0 ELSE Len(log) = 1)
    /\ [][CancelLeavesState]_vars

C24_Witness ==
    /\ op = "cancel_chat"
    /\ pc = "done"
    /\ result = Return(None)
    /\ last_call.granted = 0
    /\ token.serial = 1
    /\ log = <<<<"POST cancel", "ok">>>>

\* The loops of both clients that wait for an entity to be ready.
WaitOps ==
    ReadyOps \cup {"_wait_for_tool_ready", "_wait_for_resource_ready",
                   "_wait_for_agent_ready"}

\* The latest fetch of the loop found the entity in state "error".
SawError ==
    /\ op \in WaitOps
    /\ Len(log) > 0
    /\ log[Len(log)] = <<"GET", "error">>

\* The message ends with the text.
EndsWith(msg, text) == \E o \in WaitOps : msg = ErrorPrefix(o) \o text

(***************************************************************************)
(* C25. A readiness loop that fetches an entity in state "error" raises,   *)
(* and the message of the exception ends with the lastError text of that   *)
(* fetch, unchanged.                                                       *)
(***************************************************************************)
C25_ErrorCarriesLastError ==
    SawError =>
        /\ pc = "done"
        /\ result.kind = "raise"
        /\ last_error # Absent => EndsWith(message, last_error)

C25_Witness ==
    /\ op = "wait_for_resource_ready"
    /\ SawError
    /\ last_error = "quota exceeded"
    /\ message = "Resource failed to become ready: quota exceeded"

\* The calls that wait for an agent with _wait_for_agent_ready.
AgentWaitOps == {"_wait_for_agent_ready", "get_agent"}

\* The answer of the latest fetch of the loop of _wait_for_agent_ready.
Fetched(state) == last_response = [request |-> "GET", status |-> state]

\* The first response PABClient.get_agent received.
Verified(state) ==
    /\ op = "get_agent"
    /\ Len(log) > 0
    /\ log[1] = <<"GET agent", state>>

(***************************************************************************)
(* C26. An agent whose body has no state field counts as ready:            *)
(* _wait_for_agent_ready ends, without an exception, with the first fetch  *)
(* that reports ready or no state, and get_agent does not enter the loop   *)
(* when its GET reports ready or no state; a body in state error raises    *)
(* and the call concludes nothing.                                         *)
(***************************************************************************)
C26_AbsentStateIsReady ==
    /\ (op \in AgentWaitOps /\ (Fetched("ready") \/ Fetched(None))) =>
          /\ pc \in {"initialize", "done"}
          /\ op = "_wait_for_agent_ready" => result = Return(None)
          /\ op = "get_agent" => (pc = "done" => Count("POST chat") > 0)
    /\ (op \in AgentWaitOps /\ pc = "sleep") => Fetched("processing")
    /\ (Verified("ready") \/ Verified(None)) =>
          /\ pc \in {"initialize", "done"}
          /\ Count("GET") = 0
          /\ last_response = NoResponse
    /\ (op \in AgentWaitOps /\ (Fetched("error") \/ Verified("error"))) =>
          /\ pc = "done"
          /\ result.kind = "raise"
          /\ Count("POST chat") = 0

C26_Witness ==
    /\ Verified("processing")
    /\ Fetched(None)
    /\ pc = "done"
    /\ result = Return("AgentInterface")
    /\ chat_id = "c2"

(***************************************************************************)
(* C27. Once PABClient(P) has loaded its credentials from the explicit     *)
(* path P, the cache file exists and maps credentials_path to P, and every *)
(* later PABClient() loads its credentials from P, in the same process and *)
(* in a new process that has only the cache file.                          *)
(***************************************************************************)
C27_CredentialsPathCached ==
    (op = CacheOp /\ explicit_path # None) =>
        /\ cache_file = explicit_path
        /\ loaded.from \in {"cache", "environment", "prompt"} =>
              loaded = [from |-> "cache", path |-> explicit_path, error |-> None]

\* The creation POSTs of PABClient.create_agent and of its _create_chat.
CreationPosts == { i \in 1..Len(log) : log[i][1] \in {"POST", "POST chat"} }

(***************************************************************************)
(* C28. In PABClient.create_agent and PABClient._create_chat a creation    *)
(* POST that fails with anything but 503 ends the call: the same call      *)
(* sends no second creation POST of that kind.                             *)
(***************************************************************************)
C28_OnlyUnavailableRepeatsCreation ==
    op = "PABClient.create_agent" =>
        \A i \in CreationPosts :
            log[i][3] \notin {"ok", "503"} =>
                ~\E j \in CreationPosts :
                    /\ j > i
                    /\ log[j][1] = log[i][1]
                    /\ log[j][2] = log[i][2]

\* The server answered the tool-creation POSTs and the tool readiness fetches
\* of the call with success or 503 only.
SuccessOr503 ==
    \A i \in Events("POST tool") \cup Events("GET tool") :
        log[i][2] \in {"ok", "ready", "503"}

(***************************************************************************)
(* C29. One call of AgentInterface.add_document creates at most one tool   *)
(* named "document", whatever 503 and success responses the server gives   *)
(* to the tool-creation POST and to the tool readiness fetches, and the    *)
(* tool the registry names is the one it created.                          *)
(***************************************************************************)
C29_OneDocumentToolPerCall ==
    (op = "AgentInterface.add_document" /\ SuccessOr503) =>
        /\ Cardinality(ToolsCreated) <= 1
        /\ ToolsCreated # {} => registry["document"] = Len(ToolsAtStart) + 1

\* The requests of the session that name a tool.
ToolRequests == { i \in 1..Len(log) : log[i][3] # 0 }

(***************************************************************************)
(* C30. The registry is scoped by agent: every request that names a tool   *)
(* is addressed to the agent the client was bound to when it stored the    *)
(* tool's identifier, so after create_agent or get_agent has bound the     *)
(* client to another agent no document operation uses the tool of the      *)
(* agent before.                                                           *)
(***************************************************************************)
C30_RegistryScopedByAgent ==
    op = SessionOp => \A i \in ToolRequests : log[i][2] = log[i][4]

\* The call just made found the grant failing.
GrantFailed ==
    /\ op = MakeRequestOp
    /\ last_call.kind = "raise"
    /\ last_call.granted = 1

(***************************************************************************)
(* C31. An operation of AgentBuilderClient whose token grant fails raises  *)
(* AuthenticationError as it is, not wrapped as ApiError, and sends no     *)
(* request to the API; a later call whose grant succeeds sends its         *)
(* request.                                                                *)
(***************************************************************************)
C31_GrantFailureRaisesAuthenticationError ==
    /\ GrantFailed =>
          /\ result = Raise("AuthenticationError")
          /\ \A i \in 1..Len(log) : log[i][2] # calls_made
    /\ (op = MakeRequestOp /\ last_call.kind = "return") =>
          /\ Len(log) > 0
          /\ log[Len(log)][2] = calls_made

(***************************************************************************)
(* C37. A failed refresh of TokenManager leaves the cached pair as it was: *)
(* after a get_token that raised, the token is the one from before the     *)
(* call, so a new token is never kept with the expiry of the one before.   *)
(***************************************************************************)
C37_FailedRefreshLeavesPair ==
    (op = "get_token" /\ last_call.kind = "raise") => token = last_call.before

\* The bounded pollers of pab_sdk and the places of the log where they slept.
BoundedPollers == ReadyOps \cup {"wait_for_message_response"}
Sleeps == { i \in 1..Len(log) : log[i][1] = "sleep" }

(***************************************************************************)
(* C32. A bounded poller sleeps only between two fetch rounds: every sleep *)
(* is followed by a fetch, and a call that ends in TimeoutError after      *)
(* max_attempts rounds has slept max_attempts - 1 times.                   *)
(***************************************************************************)
C32_SleepsOnlyBetweenRounds ==
    (op \in BoundedPollers /\ pc = "done" /\ result = Raise("TimeoutError")
        /\ max_attempts >= 1) =>
        /\ Cardinality(Sleeps) = max_attempts - 1
        /\ Len(log) \notin Sleeps

\* A step in which initialize() returned an interface, and that interface.
InitializeReturned == Len(interfaces') = Len(interfaces) + 1
NewInterface == interfaces'[Len(interfaces')]

\* A step whose first request is the GET of the supplied chat, answered with
\* a failure other than 404.
VerificationFailed ==
    /\ Len(log') > Len(log)
    /\ log'[Len(log) + 1][1] = "GET chat"
    /\ log'[Len(log) + 1][3] \notin {"ok", "404"}

\* What one step of initialize() does to the current chat.
InitializeSelectsChat ==
    op = InterfaceOp =>
        /\ InitializeReturned =>
              /\ chat_id' = NewInterface.selected
              /\ chat_id' \in ChatIds'
              /\ NewInterface.supplied \in ChatIds =>
                    /\ chat_id' = NewInterface.supplied
                    /\ server' = server
                    /\ log' = Append(log, <<"GET chat", NewInterface.supplied, "ok">>)
              /\ NewInterface.supplied \notin ChatIds =>
                    /\ chat_id' \notin ChatIds
                    /\ Len(server') = Len(server) + 1
                    /\ log'[Len(log')] = <<"POST chat", None, "ok">>
              /\ NewInterface.supplied = GoneChat =>
                    log'[Len(log) + 1] = <<"GET chat", GoneChat, "404">>
        /\ VerificationFailed =>
              /\ result'.kind = "raise"
              /\ Len(log') = Len(log) + 1
              /\ UNCHANGED <<server, interfaces>>

(***************************************************************************)
(* C33. AgentInterface.initialize selects the chat: a supplied chat the    *)
(* server has becomes the current chat and no chat is created; a supplied  *)
(* chat answered with 404, and no supplied chat, make a new chat the       *)
(* current one; another failure of the verification is raised. When        *)
(* initialize has returned, the current chat is a chat of the server.      *)
(***************************************************************************)
C33_InitializeSelectsChat == [][InitializeSelectsChat]_vars

C33_Witness ==
    /\ op = InterfaceOp
    /\ Len(interfaces) = 2
    /\ interfaces[1] = [supplied |-> "c1", selected |-> "c1"]
    /\ interfaces[2] = [supplied |-> GoneChat, selected |-> "c2"]
    /\ chat_id = "c2"
    /\ result = Return("AgentInterface")

\* The messages of the log: <<"POST message", chat, interface>>.
Messages == { i \in 1..Len(log) : log[i][1] = "POST message" }

(***************************************************************************)
(* C34. Every message sent through an AgentInterface goes to the chat that *)
(* interface's own initialize() selected, whatever other interfaces were   *)
(* built from the same PABClient in between.                               *)
(***************************************************************************)
C34_MessageGoesToOwnChat ==
    op = InterfaceOp =>
        \A m \in Messages : log[m][2] = interfaces[log[m][3]].selected

\* The call began without "document" in the registry, so with add_tool, and no
\* readiness fetch of it has found the tool ready: add_tool has not returned.
AddToolNotReturned ==
    /\ op = "AgentInterface.add_document"
    /\ Len(log) > 0
    /\ log[1][1] = "POST tool"
    /\ \A i \in Events("GET tool") : log[i][2] # "ready"

(***************************************************************************)
(* C35. PABClient.add_tool that raises leaves the registry as it was: when *)
(* the call has ended with the exception of add_tool (of its POST, of a    *)
(* tool in state error or of a failed readiness fetch), the registry holds *)
(* no entry for the name, which is entered only once the tool was seen     *)
(* ready.                                                                  *)
(***************************************************************************)
C35_FailedAddToolLeavesRegistry ==
    (AddToolNotReturned /\ pc = "done" /\ result.kind = "raise") =>
        "document" \notin DOMAIN registry

\* The agent the client was bound to when get_agent was called: the client
\* begins bound to no agent and no chat or to a1 and its chat c1, and a
\* get_agent that raises has assigned no chat.
AgentBefore == IF chat_id = None THEN None ELSE "a1"

(***************************************************************************)
(* C36. PABClient.get_agent that raises (agent not found, agent in state   *)
(* error, a failed request) leaves the client bound to the agent it was    *)
(* bound to before the call.                                               *)
(***************************************************************************)
C36_FailedGetAgentKeepsAgent ==
    (op = "get_agent" /\ pc = "done" /\ result.kind = "raise") =>
        agent_id = AgentBefore

\* A node without a previous reference in either wire form: the request node
\* at the root of a chain.
IsRoot(node) == node.previous = NoPrevious /\ node.previous_ID = Absent

(***************************************************************************)
(* C38. wait_for_message_response never returns a node that has no         *)
(* previous reference, for every history_id send_message or                *)
(* continue_message can return, None (no historyId in the response)        *)
(* included.                                                               *)
(***************************************************************************)
C38_NeverReturnsRoot ==
    (op = "wait_for_message_response" /\ pc = "done" /\ result.kind = "return") =>
        ~IsRoot(NodeOf(result.value))

\* list_tools was the latest call and has returned its list.
ToolsListed ==
    /\ op = SessionOp
    /\ Len(log) > 0
    /\ log[Len(log)][1] = "GET tools"
    /\ result = Return("tools")

UploadAfterListing ==
    (ToolsListed /\ ToolsOf(agent_id) # {}
        /\ (SessionAddDocument \/ SessionInterfaceAddDocument)) =>
        /\ log' = Append(log, <<"POST resources", agent_id, registry["document"],
                                agent_id>>)
        /\ server[registry["document"]].agent = agent_id
        /\ UNCHANGED <<server, registry>>

ReadBack ==
    /\ op = DocumentOp
    /\ Len(log) >= 2
    /\ log[Len(log) - 1][1] = "add_document"
    /\ log[Len(log) - 1][3] = "ok"
    /\ log[Len(log)][1] = "get_document_content"
    /\ log[Len(log)][2] = log[Len(log) - 1][2]
    /\ result.kind = "return"

(***************************************************************************)
(* C40. Document round trip: get_document_content(name) right after a      *)
(* successful add_document(name, c) returns exactly c, for every string c, *)
(* the empty string included, the server storing the data unchanged.       *)
(***************************************************************************)
C40_DocumentRoundTrip ==
    ReadBack => result.value = Content(log[Len(log) - 1][4])
====
